---- MODULE Spec2Model ----
(***************************************************************************)
(* Membership reconciliation of the sports-picks application:              *)
(* actions/stripe-actions.ts (updateStripeCustomer, the "bind" operation,  *)
(* and manageSubscriptionStatusChange, the "reconcile" operation), the     *)
(* Stripe client they read from and the profiles table they write to.      *)
(*                                                                         *)
(* Every invocation of an async function is a slot of `inv`.  An           *)
(* invocation runs synchronously up to its next `await`; the awaited call  *)
(* resolving (or rejecting) is the next step of that invocation, so two    *)
(* invocations interleave exactly at the I/O boundaries.                   *)
(***************************************************************************)
EXTENDS Integers, Sequences, FiniteSets, TLC

VARIABLES
  profilesTable,  \* db/schema/profiles-schema.ts: userId -> row
  inv,            \* the invocations in flight, one per slot
  tableAtCall,    \* history: profilesTable as it was when the invocation
                  \* of each slot was called
  order,          \* history: the slot whose subscription fetch settled last
                  \* and the slot whose profile write was applied last
  delivered,      \* history: the invocation that returned last and the
                  \* profiles as it left them
  revoked,        \* history: userId -> the customers binds gave the user
                  \* and whether a reconcile has since taken the access
                  \* away
  page,           \* the request of the AI picks page being served
  userPicksTable, \* db/schema/user-picks-schema.ts: id -> row
  nbaPicksTable,  \* db/schema/nba-picks-schema.ts: id -> row
  response,       \* what the last data-access action call came back with
  leaderboard,    \* the request of the leaderboard page being served
  form            \* the picks form a browser shows

\* The variables of the pages and of the data-access actions
webVars ==
  <<page, userPicksTable, nbaPicksTable, response, leaderboard, form>>

\* The variables of the membership reconciliation
stripeVars ==
  <<profilesTable, inv, tableAtCall, order, delivered, revoked>>

vars == <<stripeVars, webVars>>

----------------------------------------------------------------------------
(* Values *)

\* JavaScript null where a string is expected (a nullable text column), and
\* undefined as a template literal prints it (an absent metadata key)
Null == "null"
Undefined == "undefined"

\* JavaScript null where an object is expected
NullObject == [null |-> TRUE]

\* membershipEnum = pgEnum("membership", ["free", "pro"])
membershipEnum == {"free", "pro"}

\* Stripe.Subscription.Status, the vocabulary of the switch in
\* getMembershipStatus
RecognizedStatuses ==
  {"active", "trialing", "canceled", "incomplete", "incomplete_expired",
   "past_due", "paused", "unpaid"}

\* Status strings the provider may send that the switch does not name
UnrecognizedStatuses == {"pending_review", "Active", ""}

AllStatuses == RecognizedStatuses \cup UnrecognizedStatuses

\* Values product.metadata.membership may carry (Undefined: key absent)
MetadataMemberships == {"free", "pro", "enterprise", "Pro", Undefined}

\* The number of profile rows
NumProfiles == 2

\* The profiles that exist; "u9" is a user id without a profile row
UserNames == <<"u1", "u2", "u3", "u4">>
UserIds == {UserNames[i] : i \in 1..NumProfiles}
ArgUserIds == UserIds \cup {"", "u9"}
SubscriptionIds == {"sub_1", "sub_2"}
CustomerIds == {"cus_1", "cus_2"}
ProductIds == {"prod_1"}

Slots == {1, 2}

----------------------------------------------------------------------------
(* Errors.  A thrown value is a record; instanceOfError is what the catch  *)
(* blocks test with `error instanceof Error`.                              *)

Err(message) == [instanceOfError |-> TRUE, message |-> message]

\* What the Stripe SDK rejects with when a retrieve fails
StripeError == Err("StripeError")

MissingBindParams == "Missing required parameters for updateStripeCustomer"
MissingReconcileParams ==
  "Missing required parameters for manageSubscriptionStatusChange"
SubscriptionNotRetrieved == "Failed to retrieve subscription from Stripe."
ProductNotRetrieved ==
  "Failed to retrieve product or product metadata from Stripe."
InvalidMembershipPrefix == "Invalid membership type in product metadata: "
BindUpdateFailed == "Failed to update customer profile in DB."
ReconcileUpdateFailed == "Failed to update subscription status in DB."

\* catch (error) { throw error instanceof Error ? error : new Error(fallback) }
Rethrow(error, fallback) ==
  IF error.instanceOfError THEN error ELSE Err(fallback)

----------------------------------------------------------------------------
(* Status Mapper *)

\* Mutant: a live subscription is pro whatever the product declares
getMembershipStatus_Upgrade(status, membership) ==
  CASE status \in {"active", "trialing"} -> "pro"
    [] OTHER -> "free"

\* Mutant: the default branch hands the status back
getMembershipStatus_Echo(status, membership) ==
  CASE status \in {"active", "trialing"} -> membership
    [] status \in {"canceled", "incomplete", "incomplete_expired",
                   "past_due", "paused", "unpaid"} -> "free"
    [] OTHER -> status

\* Mutant: "trialing" is missing from the pass-through cases
getMembershipStatus_TrialingDropped(status, membership) ==
  CASE status \in {"active"} -> membership
    [] OTHER -> "free"

\* Mutant: a past-due subscription keeps its tier
getMembershipStatus_PastDueKept(status, membership) ==
  CASE status \in {"active", "trialing", "past_due"} -> membership
    [] OTHER -> "free"

\* Mutant: the default branch passes the declared tier through
getMembershipStatus_DefaultOpen(status, membership) ==
  CASE status \in {"active", "trialing"} -> membership
    [] status \in {"canceled", "incomplete", "incomplete_expired",
                   "past_due", "paused", "unpaid"} -> "free"
    [] OTHER -> membership

getMembershipStatus(status, membership) ==
  CASE status \in {"active", "trialing"} -> membership
    [] status \in {"canceled", "incomplete", "incomplete_expired",
                   "past_due", "paused", "unpaid"} -> "free"
    [] OTHER -> "free"

----------------------------------------------------------------------------
(* Invocations *)

Idle ==
  [op |-> "none", pc |-> "idle",
   userId |-> "", subscriptionId |-> "", customerId |-> "", productId |-> "",
   subscription |-> NullObject,     \* const subscription
   product |-> NullObject,          \* const product
   membershipStatus |-> Null,       \* const membershipStatus
   result |-> NullObject,           \* const result / const updateResult
   calls |-> <<>>,                  \* the external calls issued so far
   outcome |-> "pending",           \* "returned" | "threw"
   returnedProfile |-> NullObject,  \* what updateStripeCustomer resolved with
   returnedMembership |-> Null,     \* what manageSubscriptionStatusChange
                                    \* resolved with
   error |-> NullObject,            \* what the invocation rejected with
   logged |-> FALSE]                \* console.error ran

Call(fn, key, data) == [fn |-> fn, key |-> key, data |-> data]

\* Mutant: the catch logs and lets the function return
Throw_Swallow(iv, error, fallback) ==
  [iv EXCEPT !.pc = "done", !.outcome = "returned", !.logged = TRUE]

\* A throw inside the try block: the catch logs and rethrows
Throw(iv, error, fallback) ==
  [iv EXCEPT !.pc = "done", !.outcome = "threw",
             !.error = Rethrow(error, fallback), !.logged = TRUE]

BindFallback == "Failed to update Stripe customer"
ReconcileFallback == "Failed to update subscription status"

\* An awaited promise settles: it rejects with an error or resolves with a value
Rejected(error) == [kind |-> "rejected", error |-> error, value |-> NullObject]
Resolved(value) == [kind |-> "resolved", error |-> NullObject, value |-> value]

\* getSubscription(subscriptionId)
getSubscription(subscriptionId) ==
  Call("stripe.subscriptions.retrieve", subscriptionId, NullObject)

----------------------------------------------------------------------------
(* updateStripeCustomer: bind the Stripe ids to the profile of userId *)

\* Mutant: the caller-supplied subscription id is stored
updateStripeCustomerData_CallerId(iv, subscription) ==
  [stripeCustomerId |-> iv.customerId,
   stripeSubscriptionId |-> iv.subscriptionId]

\* Mutant: the bind grants pro along with the Stripe ids
updateStripeCustomerData_GrantsPro(iv, subscription) ==
  [stripeCustomerId |-> iv.customerId,
   stripeSubscriptionId |-> subscription.id,
   membership |-> "pro"]

\* The fields updateStripeCustomer passes to updateProfileAction
updateStripeCustomerData(iv, subscription) ==
  [stripeCustomerId |-> iv.customerId,
   stripeSubscriptionId |-> subscription.id]

\* Mutant: customerId is not among the checked parameters
updateStripeCustomerBegin_Lax(userId, subscriptionId, customerId) ==
  LET iv == [Idle EXCEPT !.op = "updateStripeCustomer", !.userId = userId,
                         !.subscriptionId = subscriptionId,
                         !.customerId = customerId]
  IN IF userId = "" \/ subscriptionId = ""
       THEN Throw(iv, Err(MissingBindParams), BindFallback)
       ELSE [iv EXCEPT !.pc = "awaitSubscription",
                       !.calls = Append(@, getSubscription(subscriptionId))]

\* From the call to the first await
updateStripeCustomerBegin(userId, subscriptionId, customerId) ==
  LET iv == [Idle EXCEPT !.op = "updateStripeCustomer", !.userId = userId,
                         !.subscriptionId = subscriptionId,
                         !.customerId = customerId]
  IN IF userId = "" \/ subscriptionId = "" \/ customerId = ""
       THEN Throw(iv, Err(MissingBindParams), BindFallback)
       ELSE [iv EXCEPT !.pc = "awaitSubscription",
                       !.calls = Append(@, getSubscription(subscriptionId))]

\* Mutant: a rejected subscription fetch is tried once more
updateStripeCustomerOnSubscription_Retry(iv, settled) ==
  IF settled.kind = "rejected" /\ Len(iv.calls) < 2
    THEN [iv EXCEPT !.calls = Append(@, getSubscription(iv.subscriptionId))]
  ELSE IF settled.kind = "rejected"
    THEN Throw(iv, settled.error, BindFallback)
  ELSE IF settled.value = NullObject
    THEN Throw(iv, Err(SubscriptionNotRetrieved), BindFallback)
  ELSE [iv EXCEPT !.subscription = settled.value,
                  !.pc = "awaitUpdate",
                  !.calls = Append(@, Call("updateProfileAction", iv.userId,
                              updateStripeCustomerData(iv, settled.value)))]

\* From getSubscription settling to the next await
updateStripeCustomerOnSubscription(iv, settled) ==
  IF settled.kind = "rejected"
    THEN Throw(iv, settled.error, BindFallback)
  ELSE IF settled.value = NullObject
    THEN Throw(iv, Err(SubscriptionNotRetrieved), BindFallback)
  ELSE [iv EXCEPT !.subscription = settled.value,
                  !.pc = "awaitUpdate",
                  !.calls = Append(@, Call("updateProfileAction", iv.userId,
                              updateStripeCustomerData(iv, settled.value)))]

\* From updateProfileAction resolving to the end
updateStripeCustomerOnUpdate(iv, result) ==
  IF ~result.isSuccess
    THEN Throw([iv EXCEPT !.result = result], Err(BindUpdateFailed),
               BindFallback)
    ELSE [iv EXCEPT !.result = result, !.pc = "done",
                    !.outcome = "returned", !.returnedProfile = result.data]

----------------------------------------------------------------------------
(* manageSubscriptionStatusChange: reconcile the membership of the profile *)
(* that carries customerId                                                 *)

\* Mutant: the tier is compared without regard to case
IsMembership_AnyCase(membership) == membership \in {"free", "pro", "Pro"}

\* Mutant: any tier the metadata names is accepted
IsMembership_AnyNamed(membership) == membership # Undefined

\* ["free", "pro"].includes(membership)
IsMembership(membership) == membership \in {"free", "pro"}

\* Mutant: the reconcile writes the tier and clears the subscription id
manageSubscriptionStatusChangeData_ClearsId(iv, membershipStatus) ==
  [stripeSubscriptionId |-> Null,
   membership |-> membershipStatus]

\* Mutant: the caller-supplied subscription id is stored
manageSubscriptionStatusChangeData_CallerId(iv, membershipStatus) ==
  [stripeSubscriptionId |-> iv.subscriptionId,
   membership |-> membershipStatus]

\* The fields manageSubscriptionStatusChange passes to
\* updateProfileByStripeCustomerIdAction
manageSubscriptionStatusChangeData(iv, membershipStatus) ==
  [stripeSubscriptionId |-> iv.subscription.id,
   membership |-> membershipStatus]

\* Mutant: the product is fetched before the subscription
manageSubscriptionStatusChangeBegin_ProductFirst(subscriptionId, customerId, productId) ==
  LET iv == [Idle EXCEPT !.op = "manageSubscriptionStatusChange",
                         !.subscriptionId = subscriptionId,
                         !.customerId = customerId,
                         !.productId = productId]
  IN IF subscriptionId = "" \/ customerId = "" \/ productId = ""
       THEN Throw(iv, Err(MissingReconcileParams), ReconcileFallback)
       ELSE [iv EXCEPT !.pc = "awaitProduct",
                       !.calls = Append(@, Call("stripe.products.retrieve",
                                                productId, NullObject))]

\* From the call to the first await
manageSubscriptionStatusChangeBegin(subscriptionId, customerId, productId) ==
  LET iv == [Idle EXCEPT !.op = "manageSubscriptionStatusChange",
                         !.subscriptionId = subscriptionId,
                         !.customerId = customerId,
                         !.productId = productId]
  IN IF subscriptionId = "" \/ customerId = "" \/ productId = ""
       THEN Throw(iv, Err(MissingReconcileParams), ReconcileFallback)
       ELSE [iv EXCEPT !.pc = "awaitSubscription",
                       !.calls = Append(@, getSubscription(subscriptionId))]

\* Mutant: a failed subscription fetch does not stop the operation
manageSubscriptionStatusChangeOnSubscription_NoAbort(iv, settled) ==
  [iv EXCEPT !.subscription = settled.value,
             !.pc = "awaitProduct",
             !.calls = Append(@, Call("stripe.products.retrieve",
                                      iv.productId, NullObject))]

\* From getSubscription settling to the next await
manageSubscriptionStatusChangeOnSubscription(iv, settled) ==
  IF settled.kind = "rejected"
    THEN Throw(iv, settled.error, ReconcileFallback)
  ELSE IF settled.value = NullObject
    THEN Throw(iv, Err(SubscriptionNotRetrieved), ReconcileFallback)
  ELSE [iv EXCEPT !.subscription = settled.value,
                  !.pc = "awaitProduct",
                  !.calls = Append(@, Call("stripe.products.retrieve",
                                           iv.productId, NullObject))]

\* From stripe.products.retrieve settling to the next await
manageSubscriptionStatusChangeOnProduct(iv, settled) ==
  IF settled.kind = "rejected"
    THEN Throw(iv, settled.error, ReconcileFallback)
  ELSE IF settled.value = NullObject \/ settled.value.metadata = NullObject
    THEN Throw([iv EXCEPT !.product = settled.value],
               Err(ProductNotRetrieved), ReconcileFallback)
  ELSE LET membership == settled.value.metadata.membership
           membershipStatus ==
             getMembershipStatus(iv.subscription.status, membership)
       IN IF ~IsMembership(membership)
            THEN Throw([iv EXCEPT !.product = settled.value],
                       Err(InvalidMembershipPrefix \o membership),
                       ReconcileFallback)
            ELSE [iv EXCEPT
                    !.product = settled.value,
                    !.membershipStatus = membershipStatus,
                    !.pc = "awaitUpdate",
                    !.calls = Append(@,
                      Call("updateProfileByStripeCustomerIdAction",
                           iv.customerId,
                           manageSubscriptionStatusChangeData(
                             iv, membershipStatus)))]

\* Mutant: the envelope's isSuccess is not looked at
manageSubscriptionStatusChangeOnUpdate_Unchecked(iv, result) ==
  [iv EXCEPT !.result = result, !.pc = "done", !.outcome = "returned",
             !.returnedMembership = iv.membershipStatus]

\* Mutant: a write the store reports as failed is issued once more
manageSubscriptionStatusChangeOnUpdate_Retry(iv, result) ==
  IF ~result.isSuccess /\ Len(iv.calls) < 4
    THEN [iv EXCEPT !.result = result,
                    !.calls = Append(@, iv.calls[Len(iv.calls)])]
  ELSE IF ~result.isSuccess
    THEN Throw([iv EXCEPT !.result = result], Err(ReconcileUpdateFailed),
               ReconcileFallback)
    ELSE [iv EXCEPT !.result = result, !.pc = "done",
                    !.outcome = "returned",
                    !.returnedMembership = iv.membershipStatus]

\* From updateProfileByStripeCustomerIdAction resolving to the end
manageSubscriptionStatusChangeOnUpdate(iv, result) ==
  IF ~result.isSuccess
    THEN Throw([iv EXCEPT !.result = result], Err(ReconcileUpdateFailed),
               ReconcileFallback)
    ELSE [iv EXCEPT !.result = result, !.pc = "done",
                    !.outcome = "returned",
                    !.returnedMembership = iv.membershipStatus]

----------------------------------------------------------------------------
(* The profile store: actions/db/profiles-actions.  Each action runs one   *)
(* UPDATE ... WHERE ... RETURNING and reports an envelope; `dbOk` is       *)
(* whether the database executed the statement.                            *)

\* Mutant: a write does not take pro away from a row that has it
SetColumns_KeepsPro(row, data) ==
  [c \in DOMAIN row |->
     IF c \in DOMAIN data /\ ~(c = "membership" /\ row[c] = "pro")
       THEN data[c] ELSE row[c]]

SetColumns_Toggle(row, data) ==
  [c \in DOMAIN row |->
     IF c \notin DOMAIN data THEN row[c]
     ELSE IF c = "stripeSubscriptionId" /\ row[c] = data[c] THEN Null
     ELSE data[c]]

\* .set(data): the named columns change, the others keep their values
SetColumns(row, data) ==
  [c \in DOMAIN row |-> IF c \in DOMAIN data THEN data[c] ELSE row[c]]

\* What the invocation sees of a store answer: the envelope
Envelope(answer) == [isSuccess |-> answer.isSuccess, data |-> answer.data]

Failure(table) == [table |-> table, isSuccess |-> FALSE, data |-> NullObject]

\* updateProfileAction(userId, data)
updateProfileAction(table, userId, data, dbOk) ==
  IF ~dbOk \/ userId \notin DOMAIN table
    THEN Failure(table)
    ELSE [table |-> [table EXCEPT ![userId] = SetColumns(@, data)],
          isSuccess |-> TRUE,
          data |-> SetColumns(table[userId], data)]

\* updateProfileByStripeCustomerIdAction(stripeCustomerId, data)
updateProfileByStripeCustomerIdAction(table, stripeCustomerId, data, dbOk) ==
  LET matching == {u \in DOMAIN table :
                     table[u].stripeCustomerId = stripeCustomerId}
  IN IF ~dbOk \/ matching = {}
       THEN Failure(table)
       ELSE [table |-> [u \in DOMAIN table |->
                          IF u \in matching THEN SetColumns(table[u], data)
                                            ELSE table[u]],
             isSuccess |-> TRUE,
             data |-> SetColumns(table[CHOOSE u \in matching : TRUE], data)]

----------------------------------------------------------------------------
(* The data-access actions of the picks: actions/db/user-picks-actions.ts  *)
(* and actions/db/nba-picks-actions.ts.  A table is a function from the    *)
(* ids it has room for to the row of that id, or to NoRow.  Each action    *)
(* awaits one statement inside one try block; `dbOk` is whether the        *)
(* database executed the statement.                                        *)
(* An action yields the table after it, how it ended and its envelope.     *)

\* The rows the tables have room for
MaxUserPicks == 2
MaxNbaPicks == 2
UserPickIds == {"p" \o ToString(i) : i \in 1..MaxUserPicks}
NbaPickIds == {"n" \o ToString(i) : i \in 1..MaxNbaPicks}

\* No row of that id, the table with no row, and whether a row is there
NoRow == [absent |-> TRUE]
EmptyTable(ids) == [i \in ids |-> NoRow]
Has(table, id) == id \in DOMAIN table /\ table[id] # NoRow
Rows(table) == {table[i] : i \in {j \in DOMAIN table : table[j] # NoRow}}

\* ActionState<T>: { isSuccess: true; message; data } and
\* { isSuccess: false; message; data?: never }
Ok(message, data) == [isSuccess |-> TRUE, message |-> message, data |-> data]
Fail(message) == [isSuccess |-> FALSE, message |-> message]

\* return { ... } and, in the mutants, an error leaving the function
Returns(table, envelope) ==
  [table |-> table, outcome |-> "returned", result |-> envelope]
Throws(table) == [table |-> table, outcome |-> "threw", result |-> NullObject]

\* INSERT ... RETURNING under the defaults of the table: id is the fresh
\* uuid; created_at, kept as the age of the row in days, is now unless the
\* values name it
InsertedRow(pick, id) ==
  [c \in DOMAIN pick \cup {"id", "age", "result"} |->
     IF c = "id" THEN id
     ELSE IF c \in DOMAIN pick THEN pick[c]
     ELSE IF c = "result" THEN Null ELSE 0]

\* Mutant: a database error leaves createUserPickAction as an exception
createUserPickAction_Rethrow(table, profiles, pick, id, dbOk) ==
  IF ~dbOk \/ pick.userId \notin DOMAIN profiles
    THEN Throws(table)
    ELSE Returns([table EXCEPT ![id] = InsertedRow(pick, id)],
                 Ok("User pick created successfully", InsertedRow(pick, id)))

\* createUserPickAction(pick); user_id references profiles.user_id
createUserPickAction(table, profiles, pick, id, dbOk) ==
  IF ~dbOk \/ pick.userId \notin DOMAIN profiles
    THEN Returns(table, Fail("Failed to create user pick"))
    ELSE Returns([table EXCEPT ![id] = InsertedRow(pick, id)],
                 Ok("User pick created successfully", InsertedRow(pick, id)))

\* getUserPicksAction(userId)
getUserPicksAction(table, userId, dbOk) ==
  IF ~dbOk
    THEN Returns(table, Fail("Failed to retrieve user picks"))
    ELSE Returns(table,
                 Ok("User picks retrieved successfully",
                    {row \in Rows(table) : row.userId = userId}))

\* The user_id a statement writes references a profile
ReferencesProfile(profiles, data) ==
  "userId" \in DOMAIN data => data.userId \in DOMAIN profiles

\* updateUserPickAction(id, data); the database checks the reference of
\* user_id on the rows the statement updates
updateUserPickAction(table, profiles, id, data, dbOk) ==
  IF ~dbOk \/ (Has(table, id) /\ ~ReferencesProfile(profiles, data))
    THEN Returns(table, Fail("Failed to update user pick"))
  ELSE IF ~Has(table, id)
    THEN Returns(table, Fail("User pick not found or no update performed"))
  ELSE Returns([table EXCEPT ![id] = SetColumns(@, data)],
               Ok("User pick updated successfully",
                  SetColumns(table[id], data)))

\* DELETE ... WHERE id = ...: the table without the row
Without(table, id) == [table EXCEPT ![id] = NoRow]

\* deleteUserPickAction(id)
deleteUserPickAction(table, id, dbOk) ==
  IF ~dbOk
    THEN Returns(table, Fail("Failed to delete user pick"))
  ELSE IF ~Has(table, id)
    THEN Returns(table, Fail("User pick not found to delete"))
  ELSE Returns(Without(table, id),
               Ok("User pick deleted successfully", Undefined))

\* createNbaPickAction(pick)
createNbaPickAction(table, pick, id, dbOk) ==
  IF ~dbOk
    THEN Returns(table, Fail("Failed to create NBA pick"))
    ELSE Returns([table EXCEPT ![id] = InsertedRow(pick, id)],
                 Ok("NBA pick created successfully", InsertedRow(pick, id)))

\* getNbaPicksAction()
getNbaPicksAction(table, dbOk) ==
  IF ~dbOk
    THEN Returns(table, Fail("Failed to retrieve NBA picks"))
    ELSE Returns(table,
                 Ok("NBA picks retrieved successfully",
                    Rows(table)))

\* updateNbaPickAction(id, data)
updateNbaPickAction(table, id, data, dbOk) ==
  IF ~dbOk
    THEN Returns(table, Fail("Failed to update NBA pick"))
  ELSE IF ~Has(table, id)
    THEN Returns(table, Fail("NBA pick not found to update"))
  ELSE Returns([table EXCEPT ![id] = SetColumns(@, data)],
               Ok("NBA pick updated successfully",
                  SetColumns(table[id], data)))

\* Mutant: deleting a row that is not there counts as done
deleteNbaPickAction_Idempotent(table, id, dbOk) ==
  IF ~dbOk
    THEN Returns(table, Fail("Failed to delete NBA pick"))
    ELSE Returns(Without(table, id),
                 Ok("NBA pick deleted successfully", Undefined))

\* deleteNbaPickAction(id)
deleteNbaPickAction(table, id, dbOk) ==
  IF ~dbOk
    THEN Returns(table, Fail("Failed to delete NBA pick"))
  ELSE IF ~Has(table, id)
    THEN Returns(table, Fail("NBA pick not found to delete"))
  ELSE Returns(Without(table, id),
               Ok("NBA pick deleted successfully", Undefined))

----------------------------------------------------------------------------
(* JavaScript numbers and strings, as far as the leaderboard uses them.  A *)
(* string is the sequence of its characters.  A number is NaN, an integer  *)
(* of up to nine digits with its value, a finite integer of more digits    *)
(* (the digits read stand for the double next to them), or an infinity; a  *)
(* `number | undefined` may also be NotANumberValue.                       *)

NaN == [kind |-> "NaN"]
NotANumberValue == [kind |-> "undefined"]
Integer(value) == [kind |-> "integer", value |-> value]
Huge(negative, digits) ==
  [kind |-> "huge", negative |-> negative, digits |-> digits]
Infinity(negative) == [kind |-> "Infinity", negative |-> negative]

Digit ==
  "0" :> 0 @@ "1" :> 1 @@ "2" :> 2 @@ "3" :> 3 @@ "4" :> 4 @@
  "5" :> 5 @@ "6" :> 6 @@ "7" :> 7 @@ "8" :> 8 @@ "9" :> 9

\* The length of the longest prefix of chars made of characters of set
PrefixLength(chars, set) ==
  CHOOSE n \in 0..Len(chars) :
    /\ \A i \in 1..n : chars[i] \in set
    /\ n = Len(chars) \/ chars[n + 1] \notin set

SkipWhile(chars, skipped) ==
  SubSeq(chars, PrefixLength(chars, skipped) + 1, Len(chars))

DigitPrefix(chars) == SubSeq(chars, 1, PrefixLength(chars, DOMAIN Digit))

RECURSIVE DecimalValue(_)
DecimalValue(digits) ==
  IF digits = <<>> THEN 0
  ELSE 10 * DecimalValue(SubSeq(digits, 1, Len(digits) - 1))
         + Digit[digits[Len(digits)]]

\* parseInt(string, 10): leading white space is skipped, a sign is read,
\* then the longest run of decimal digits; no digit gives NaN.  The value
\* is a double: the doubles end at 1.797...e308, a larger value is Infinity.
parseInt(chars) ==
  LET trimmed == SkipWhile(chars, {" "})
      negative == trimmed # <<>> /\ Head(trimmed) = "-"
      unsigned == IF trimmed # <<>> /\ Head(trimmed) \in {"+", "-"}
                    THEN Tail(trimmed) ELSE trimmed
      digits == DigitPrefix(unsigned)
      significant == SkipWhile(digits, {"0"})
  IN IF digits = <<>> THEN NaN
     ELSE IF Len(significant) <= 9
       THEN Integer(IF negative THEN 0 - DecimalValue(significant)
                                ELSE DecimalValue(significant))
     ELSE IF \/ Len(significant) < 309
             \/ /\ Len(significant) = 309
                /\ DecimalValue(SubSeq(significant, 1, 4)) < 1798
       THEN Huge(negative, significant)
     ELSE Infinity(negative)

\* isNaN(n), n < k and n > k for an integer k of up to nine digits, and
\* the truth value of a number
isNaN(n) == n.kind = "NaN"
LessThan(n, k) ==
  \/ n.kind = "integer" /\ n.value < k
  \/ n.kind \in {"huge", "Infinity"} /\ n.negative
GreaterThan(n, k) ==
  \/ n.kind = "integer" /\ n.value > k
  \/ n.kind \in {"huge", "Infinity"} /\ ~n.negative
Truthy(n) == n.kind \notin {"undefined", "NaN"} /\ n # Integer(0)

\* Number.isInteger(n) && n >= 1
IsPositiveInteger(n) ==
  \/ n.kind = "integer" /\ n.value >= 1
  \/ n.kind = "huge" /\ ~n.negative

RECURSIVE NaturalToString(_)
NaturalToString(n) ==
  IF n < 10 THEN <<CHOOSE c \in DOMAIN Digit : Digit[c] = n>>
  ELSE NaturalToString(n \div 10) \o NaturalToString(n % 10)

\* `${n}` for the numbers the leaderboard filter can be
NumberToString(n) ==
  CASE n.kind = "integer" /\ n.value >= 0 -> NaturalToString(n.value)
    [] n.kind = "integer" /\ n.value < 0 ->
         <<"-">> \o NaturalToString(0 - n.value)
    [] n.kind = "Infinity" ->
         (IF n.negative THEN <<"-">> ELSE <<>>)
           \o <<"I", "n", "f", "i", "n", "i", "t", "y">>
    [] n.kind = "huge" ->
         (IF n.negative THEN <<"-">> ELSE <<>>)
           \o (IF Len(n.digits) <= 21
                 THEN n.digits
                 ELSE <<Head(n.digits), "e", "+">>
                        \o NaturalToString(Len(n.digits) - 1))
    [] OTHER -> <<"N", "a", "N">>

----------------------------------------------------------------------------
(* The leaderboard: actions/db/leaderboard-actions.ts and                  *)
(* app/leaderboard/page.tsx                                                *)

\* The text appended to the query when days is truthy and positive:
\* WHERE created_at > NOW() - INTERVAL '${days} days'; NullObject is no
\* WHERE clause
LeaderboardFilter(days) ==
  IF Truthy(days) /\ GreaterThan(days, 0)
    THEN [days |-> days, interval |-> NumberToString(days) \o <<" ", "d", "a", "y", "s">>]
    ELSE NullObject

\* The database reads an interval of a plain count of days of up to nine
\* digits; any other text makes the statement fail
FilterExecutes(filter) ==
  filter = NullObject \/ (filter.days.kind = "integer" /\ filter.days.value > 0)

\* The rows the statement aggregates
FilteredRows(table, filter) ==
  {row \in Rows(table) : filter = NullObject \/ row.age < filter.days.value}

\* COUNT(*) and SUM(CASE WHEN result = ... THEN 1 ELSE 0 END) of the rows
\* of a user, as the driver hands them over: decimal strings
CountText(rows, userId, results) ==
  NaturalToString(Cardinality({row \in rows :
                                 row.userId = userId /\ row.result \in results}))

\* rawRows.map(row => ...): the entry of one user
LeaderboardEntry(rows, userId, allResults) ==
  LET totalPicks == parseInt(CountText(rows, userId, allResults))
      totalWins == parseInt(CountText(rows, userId, {"win"}))
  IN [userId |-> userId,
      totalPicks |-> totalPicks,
      totalWins |-> totalWins,
      totalLosses |-> parseInt(CountText(rows, userId, {"loss"})),
      totalPushes |-> parseInt(CountText(rows, userId, {"push"})),
      winPercentage |->
        IF GreaterThan(totalPicks, 0)
          THEN [numerator |-> totalWins.value,
                denominator |-> totalPicks.value]
          ELSE [numerator |-> 0, denominator |-> 1]]

\* GROUP BY user_id ORDER BY total_wins DESC: the users that have a row, in
\* an order the database is free to choose among those the sort allows
Wins(rows, userId) == Cardinality({row \in rows : row.userId = userId /\ row.result = "win"})
Rankings_Unsorted(rows) ==
  LET users == {row.userId : row \in rows}
  IN {ranking \in [1..Cardinality(users) -> users] :
        \A i, j \in DOMAIN ranking : i # j => ranking[i] # ranking[j]}

Rankings(rows) ==
  LET users == {row.userId : row \in rows}
  IN {ranking \in [1..Cardinality(users) -> users] :
        /\ \A i, j \in DOMAIN ranking : i # j => ranking[i] # ranking[j]
        /\ \A i, j \in DOMAIN ranking :
             i < j => Wins(rows, ranking[i]) >= Wins(rows, ranking[j])}

\* Mutant: COUNT(result) in the place of COUNT(*)
getLeaderboardAction_CountResult(table, days, ranking, dbOk) ==
  LET filter == LeaderboardFilter(days)
      rows == FilteredRows(table, filter)
      allResults == {row.result : row \in rows} \ {Null}
  IN IF ~dbOk \/ ~FilterExecutes(filter)
       THEN Returns(table, Fail("Failed to retrieve leaderboard data"))
       ELSE Returns(table,
                    Ok("Leaderboard data retrieved successfully",
                       [i \in DOMAIN ranking |->
                          LeaderboardEntry(rows, ranking[i], allResults)]))

\* getLeaderboardAction(days)
getLeaderboardAction(table, days, ranking, dbOk) ==
  LET filter == LeaderboardFilter(days)
      rows == FilteredRows(table, filter)
      allResults == {row.result : row \in rows}
  IN IF ~dbOk \/ ~FilterExecutes(filter)
       THEN Returns(table, Fail("Failed to retrieve leaderboard data"))
       ELSE Returns(table,
                    Ok("Leaderboard data retrieved successfully",
                       [i \in DOMAIN ranking |->
                          LeaderboardEntry(rows, ranking[i], allResults)]))

\* A query string that has no days parameter
NoDays == [none |-> <<>>]

\* No request of the leaderboard page is being served
LeaderboardIdle ==
  [pc |-> "idle", searchParams |-> NoDays, daysParam |-> NotANumberValue,
   calls |-> <<>>,                 \* the arguments of getLeaderboardAction
   result |-> NullObject,          \* const leaderboardResult
   response |-> NullObject]        \* what the page answered with

\* redirect(url) and the two renderings of the leaderboard page
Redirect(url) == [kind |-> "redirect", url |-> url]
Rendered(view, data) == [kind |-> "rendered", view |-> view, data |-> data]

LeaderboardPageBegin_NaNOnly(searchParams) ==
  LET lb == [LeaderboardIdle EXCEPT !.searchParams = searchParams]
      parsed == parseInt(searchParams.days)
  IN IF "days" \in DOMAIN searchParams /\ searchParams.days # <<>>
       THEN IF isNaN(parsed)
              THEN [lb EXCEPT !.pc = "done",
                              !.response = Redirect("/leaderboard")]
              ELSE [lb EXCEPT !.pc = "awaitLeaderboard",
                              !.daysParam = parsed,
                              !.calls = Append(@, parsed)]
       ELSE [lb EXCEPT !.pc = "awaitLeaderboard",
                       !.calls = Append(@, NotANumberValue)]

\* LeaderboardPage({ searchParams }) up to its await
LeaderboardPageBegin(searchParams) ==
  LET lb == [LeaderboardIdle EXCEPT !.searchParams = searchParams]
      parsed == parseInt(searchParams.days)
  IN IF "days" \in DOMAIN searchParams /\ searchParams.days # <<>>
       THEN IF isNaN(parsed) \/ LessThan(parsed, 1)
              THEN [lb EXCEPT !.pc = "done",
                              !.response = Redirect("/leaderboard")]
              ELSE [lb EXCEPT !.pc = "awaitLeaderboard",
                              !.daysParam = parsed,
                              !.calls = Append(@, parsed)]
       ELSE [lb EXCEPT !.pc = "awaitLeaderboard",
                       !.calls = Append(@, NotANumberValue)]

\* From getLeaderboardAction resolving to the end
LeaderboardPageOnResult(lb, leaderboardResult) ==
  IF ~leaderboardResult.isSuccess
    THEN [lb EXCEPT !.pc = "done", !.result = leaderboardResult,
                    !.response = Rendered("error", leaderboardResult.message)]
    ELSE [lb EXCEPT !.pc = "done", !.result = leaderboardResult,
                    !.response = Rendered("leaderboard",
                                          leaderboardResult.data)]

----------------------------------------------------------------------------
(* The picks form: app/my-picks/_components/picks-form.tsx                 *)

\* string.trim(): the text without the white space at its ends
Reversed(chars) == [i \in 1..Len(chars) |-> chars[Len(chars) + 1 - i]]
trim(chars) ==
  Reversed(SkipWhile(Reversed(SkipWhile(chars, {" "})), {" "}))

\* PicksForm({ userId, initialPicks }): the state of the four useState
\* hooks at the first render, the calls of createUserPickAction that are
\* outstanding, every call made, what the last one settled with, and the
\* last toast
PicksForm(userId, initialPicks) ==
  [pc |-> "mounted", userId |-> userId,
   gameId |-> <<>>,                \* useState("")
   userPick |-> <<>>,              \* useState("")
   isCreating |-> FALSE,           \* useState(false)
   picks |-> initialPicks,         \* useState(initialPicks)
   pending |-> <<>>, calls |-> <<>>, settled |-> NullObject,
   toast |-> "none"]

\* onChange of the two inputs
setGameId(f, value) == [f EXCEPT !.gameId = value]
setUserPick(f, value) == [f EXCEPT !.userPick = value]

\* Mutant: the fields are tested as typed, not trimmed
handleCreatePickBegin_Untrimmed(f) ==
  IF f.gameId = <<>> \/ f.userPick = <<>>
    THEN [f EXCEPT !.toast = "Missing fields"]
    ELSE LET pick == [userId |-> f.userId, gameId |-> f.gameId,
                      pick |-> f.userPick]
         IN [f EXCEPT !.isCreating = TRUE,
                      !.pending = Append(@, pick),
                      !.calls = Append(@, pick)]

\* handleCreatePick(e) up to its await
handleCreatePickBegin(f) ==
  IF trim(f.gameId) = <<>> \/ trim(f.userPick) = <<>>
    THEN [f EXCEPT !.toast = "Missing fields"]
    ELSE LET pick == [userId |-> f.userId, gameId |-> f.gameId,
                      pick |-> f.userPick]
         IN [f EXCEPT !.isCreating = TRUE,
                      !.pending = Append(@, pick),
                      !.calls = Append(@, pick)]

\* Mutant: the pick is put in the list whatever the envelope says
handleCreatePickOnSettled_Optimistic(f, settled) ==
  LET over == [f EXCEPT !.pending = Tail(@), !.isCreating = FALSE,
                        !.settled = [outcome |-> settled.outcome,
                                     result |-> settled.result]]
  IN IF settled.outcome = "threw"
       THEN [over EXCEPT !.toast = "Error"]
       ELSE [over EXCEPT !.picks = <<Head(f.pending)>> \o @,
                         !.gameId = <<>>, !.userPick = <<>>,
                         !.toast = "Pick created"]

\* handleCreatePick(e) from its await on: the try, the catch and the
\* finally
handleCreatePickOnSettled(f, settled) ==
  LET over == [f EXCEPT !.pending = Tail(@), !.isCreating = FALSE,
                        !.settled = [outcome |-> settled.outcome,
                                     result |-> settled.result]]
  IN IF settled.outcome = "threw"
       THEN [over EXCEPT !.toast = "Error"]
     ELSE IF settled.result.isSuccess
       THEN [over EXCEPT !.picks = <<settled.result.data>> \o @,
                         !.gameId = <<>>, !.userPick = <<>>,
                         !.toast = "Pick created"]
     ELSE [over EXCEPT !.toast = "Error creating pick"]

----------------------------------------------------------------------------
(* The AI picks page: app/picks/page.tsx                                   *)

\* No request of the AI picks page is being served
PageIdle ==
  [pc |-> "idle",
   userId |-> Null,                \* const { userId }
   profileResult |-> NullObject,   \* const profileResult
   picksResult |-> NullObject,     \* const picksResult
   calls |-> <<>>,                 \* the data-access actions called so far
   response |-> NullObject]        \* what the page answered with

\* getProfileByUserIdAction(userId): what it may resolve with.  A profile
\* that is there is handed over unless the database fails; one that is not
\* there gives a failure, or a success without data
ProfileOutcomes(table, userId) ==
  {[isSuccess |-> FALSE, data |-> NullObject]}
    \cup (IF userId \in DOMAIN table
            THEN {[isSuccess |-> TRUE, data |-> table[userId]]}
            ELSE {[isSuccess |-> TRUE, data |-> NullObject]})

\* AiPicksPage() up to its first await
AiPicksPageBegin == [PageIdle EXCEPT !.pc = "awaitAuth"]

\* From auth() resolving to the next await
AiPicksPageOnAuth(pg, userId) ==
  IF userId \in {Null, ""}
    THEN [pg EXCEPT !.userId = userId, !.pc = "done",
                    !.response = Redirect("/login")]
    ELSE [pg EXCEPT !.userId = userId, !.pc = "awaitProfile",
                    !.calls = Append(@, "getProfileByUserIdAction")]

\* Mutant: the paywall is not put up
AiPicksPageOnProfile_NoPaywall(pg, profileResult) ==
  IF ~profileResult.isSuccess \/ profileResult.data = NullObject
    THEN [pg EXCEPT !.profileResult = profileResult, !.pc = "done",
                    !.response = Redirect("/signup")]
    ELSE [pg EXCEPT !.profileResult = profileResult, !.pc = "awaitPicks",
                    !.calls = Append(@, "getNbaPicksAction")]

\* From getProfileByUserIdAction resolving to the next await
AiPicksPageOnProfile(pg, profileResult) ==
  IF ~profileResult.isSuccess \/ profileResult.data = NullObject
    THEN [pg EXCEPT !.profileResult = profileResult, !.pc = "done",
                    !.response = Redirect("/signup")]
  ELSE IF profileResult.data.membership = "free"
    THEN [pg EXCEPT !.profileResult = profileResult, !.pc = "done",
                    !.response = Rendered("paywall", NullObject)]
  ELSE [pg EXCEPT !.profileResult = profileResult, !.pc = "awaitPicks",
                  !.calls = Append(@, "getNbaPicksAction")]

\* From getNbaPicksAction resolving to the end
AiPicksPageOnPicks(pg, picksResult) ==
  IF ~picksResult.isSuccess
    THEN [pg EXCEPT !.picksResult = picksResult, !.pc = "done",
                    !.response = Rendered("error", picksResult.message)]
    ELSE [pg EXCEPT !.picksResult = picksResult, !.pc = "done",
                    !.response = Rendered("picks", picksResult.data)]

----------------------------------------------------------------------------
(* The state machine *)

\* A new profile row: membership defaults to "free", the Stripe columns to null
NewProfile(userId) ==
  [userId |-> userId, membership |-> "free",
   stripeCustomerId |-> Null, stripeSubscriptionId |-> Null]

InitialTable == [u \in UserIds |-> NewProfile(u)]

\* No data-access action has been called yet
NoResponse == [action |-> "none"]

\* What a call of a data-access action came back with
Response(action, dbOk, answer) ==
  [action |-> action, dbOk |-> dbOk, outcome |-> answer.outcome,
   result |-> answer.result]

\* The id an update or a delete was called with and the table it found
Target(id, table) == [id |-> id, before |-> table]

\* No invocation has returned yet
NoDelivery == [inv |-> Idle, table |-> InitialTable]

\* The picks form is not on the screen
FormUnmounted ==
  [pc |-> "unmounted", userId |-> "", gameId |-> <<>>, userPick |-> <<>>,
   isCreating |-> FALSE, picks |-> <<>>, pending |-> <<>>, calls |-> <<>>,
   settled |-> NullObject, toast |-> "none"]

\* No bind has given the user a customer and no reconcile has taken the
\* access away
NotRevoked ==
  [customers |-> {}, claimed |-> FALSE, bound |-> FALSE,
   readClaimed |-> FALSE, readBound |-> FALSE]

\* No fetch and no write has been seen yet
NoOrder == [lastFetcher |-> 0, lastWriter |-> 0]

Init ==
  /\ profilesTable = InitialTable
  /\ inv = [s \in Slots |-> Idle]
  /\ tableAtCall = [s \in Slots |-> InitialTable]
  /\ order = NoOrder
  /\ delivered = NoDelivery
  /\ revoked = [u \in UserIds |-> NotRevoked]
  /\ page = PageIdle
  /\ userPicksTable = EmptyTable(UserPickIds)
  /\ nbaPicksTable = EmptyTable(NbaPickIds)
  /\ response = NoResponse
  /\ leaderboard = LeaderboardIdle
  /\ form = FormUnmounted

\* Whether the specification of inputs d keeps the history named flag
Keeps(d, flag) == flag \in DOMAIN d /\ d[flag]

\* The history variable at a call: the table as it is now, where the
\* specification keeps the history
Snapshot(s, d) ==
  IF d.history THEN [tableAtCall EXCEPT ![s] = profilesTable]
               ELSE tableAtCall

\* What stripe.subscriptions.retrieve may settle with
SubscriptionOutcomes(d) ==
  {Rejected(StripeError), Resolved(NullObject)}
    \cup {Resolved([id |-> i, status |-> st]) :
            i \in (IF "fetchedIds" \in DOMAIN d THEN d.fetchedIds
                                                ELSE SubscriptionIds),
            st \in d.statuses}

\* What stripe.products.retrieve may settle with
ProductOutcomes(d) ==
  {Rejected(StripeError), Resolved(NullObject),
   Resolved([metadata |-> NullObject])}
    \cup {Resolved([metadata |-> [membership |-> m]]) : m \in d.memberships}

\* The caller (the webhook receiver) invokes updateStripeCustomer
CallUpdateStripeCustomer(s, d) ==
  /\ inv[s].pc = "idle"
  /\ \E userId \in d.userIds, subscriptionId \in d.subscriptionIds,
        customerId \in d.customerIds :
       inv' = [inv EXCEPT ![s] =
                 updateStripeCustomerBegin(userId, subscriptionId, customerId)]
  /\ tableAtCall' = Snapshot(s, d)
  /\ UNCHANGED <<profilesTable, order, delivered, revoked, webVars>>

\* The caller invokes manageSubscriptionStatusChange
CallManageSubscriptionStatusChange(s, d) ==
  /\ inv[s].pc = "idle"
  /\ \E subscriptionId \in d.subscriptionIds, customerId \in d.customerIds,
        productId \in d.productIds :
       inv' = [inv EXCEPT ![s] =
                 manageSubscriptionStatusChangeBegin(subscriptionId,
                                                     customerId, productId)]
  /\ tableAtCall' = Snapshot(s, d)
  /\ UNCHANGED <<profilesTable, order, delivered, revoked, webVars>>

\* await getSubscription(subscriptionId) settles
SubscriptionSettles(s, d) ==
  /\ inv[s].pc = "awaitSubscription"
  /\ \E settled \in SubscriptionOutcomes(d) :
       /\ inv' = [inv EXCEPT ![s] =
                 IF inv[s].op = "updateStripeCustomer"
                   THEN updateStripeCustomerOnSubscription(@, settled)
                   ELSE manageSubscriptionStatusChangeOnSubscription(@, settled)]
       /\ order' = IF d.order /\ settled.kind = "resolved"
                        /\ settled.value # NullObject
                     THEN [order EXCEPT !.lastFetcher = s]
                     ELSE order
  /\ UNCHANGED <<profilesTable, tableAtCall, delivered, revoked, webVars>>

\* await stripe.products.retrieve(productId) settles
ProductSettles(s, d) ==
  /\ inv[s].pc = "awaitProduct"
  /\ \E settled \in ProductOutcomes(d) :
       inv' = [inv EXCEPT ![s] =
                 manageSubscriptionStatusChangeOnProduct(@, settled)]
  /\ UNCHANGED <<profilesTable, tableAtCall, order, delivered, revoked,
                 webVars>>

\* The history of revocations after the write of invocation iv succeeded.
\* A bind adds its customer to those of its user.  A reconcile of a
\* subscription that is neither active nor trialing revokes every user a
\* bind ever gave the customer (claimed), and among them those whose
\* profile carries the customer at the write (bound).  A reconcile of a
\* live subscription of a pro product ends every revocation.
Revocation(iv, call) ==
  IF call.fn = "updateProfileAction"
    THEN [u \in UserIds |->
            IF u = call.key
              THEN [revoked[u] EXCEPT !.customers = @ \cup {iv.customerId}]
              ELSE revoked[u]]
  ELSE IF iv.subscription.status \notin {"active", "trialing"}
    THEN [u \in UserIds |->
            IF call.key \in revoked[u].customers
              THEN [revoked[u] EXCEPT
                      !.claimed = TRUE,
                      !.bound = @ \/ profilesTable[u].stripeCustomerId
                                       = call.key]
              ELSE revoked[u]]
  ELSE IF iv.product.metadata.membership = "pro"
    THEN [u \in UserIds |->
            [revoked[u] EXCEPT !.claimed = FALSE, !.bound = FALSE]]
  ELSE revoked

\* The profile store runs the update the invocation awaits and reports
UpdateResolves(s, d) ==
  /\ inv[s].pc = "awaitUpdate"
  /\ \E dbOk \in BOOLEAN :
       LET call == inv[s].calls[Len(inv[s].calls)]
           answer ==
             IF call.fn = "updateProfileAction"
               THEN updateProfileAction(profilesTable, call.key, call.data,
                                        dbOk)
               ELSE updateProfileByStripeCustomerIdAction(
                      profilesTable, call.key, call.data, dbOk)
       IN /\ profilesTable' = answer.table
          /\ inv' = [inv EXCEPT ![s] =
                       IF inv[s].op = "updateStripeCustomer"
                         THEN updateStripeCustomerOnUpdate(@, Envelope(answer))
                         ELSE manageSubscriptionStatusChangeOnUpdate(
                                @, Envelope(answer))]
          /\ order' = IF d.order /\ answer.isSuccess
                        THEN [order EXCEPT !.lastWriter = s]
                        ELSE order
          /\ revoked' = IF Keeps(d, "revoked") /\ answer.isSuccess
                          THEN Revocation(inv[s], call)
                          ELSE revoked
  /\ UNCHANGED <<tableAtCall, delivered, webVars>>

\* The caller has taken the result or the error of a finished invocation
Return(s, d) ==
  /\ inv[s].pc = "done"
  /\ inv' = [inv EXCEPT ![s] = Idle]
  /\ tableAtCall' = [tableAtCall EXCEPT ![s] = InitialTable]
  /\ order' = NoOrder
  /\ delivered' = IF Keeps(d, "delivered")
                    THEN [inv |-> inv[s], table |-> profilesTable]
                    ELSE delivered
  /\ UNCHANGED <<profilesTable, revoked, webVars>>

\* A caller invokes a data-access action of the user picks; the action
\* has returned when the step is over
CreateUserPick(d) ==
  /\ \E pick \in d.userPicks, dbOk \in BOOLEAN :
     \E id \in {i \in UserPickIds : ~Has(userPicksTable, i)} :
       LET answer == createUserPickAction(userPicksTable, profilesTable,
                                          pick, id, dbOk)
       IN /\ userPicksTable' = answer.table
          /\ response' = Response("createUserPickAction", dbOk, answer)
  /\ UNCHANGED <<stripeVars, form, page, nbaPicksTable, leaderboard>>

GetUserPicks(d) ==
  /\ \E userId \in d.pickUserIds, dbOk \in BOOLEAN :
       LET answer == getUserPicksAction(userPicksTable, userId, dbOk)
       IN /\ userPicksTable' = answer.table
          /\ response' = Response("getUserPicksAction", dbOk, answer)
  /\ UNCHANGED <<stripeVars, form, page, nbaPicksTable, leaderboard>>

UpdateUserPick(d) ==
  /\ \E id \in d.userPickIds, data \in d.userPickUpdates, dbOk \in BOOLEAN :
       LET answer == updateUserPickAction(userPicksTable, profilesTable,
                                          id, data, dbOk)
       IN /\ userPicksTable' = answer.table
          /\ response' = Response("updateUserPickAction", dbOk, answer)
                            @@ Target(id, userPicksTable) @@ [data |-> data]
  /\ UNCHANGED <<stripeVars, form, page, nbaPicksTable, leaderboard>>

DeleteUserPick(d) ==
  /\ \E id \in d.userPickIds, dbOk \in BOOLEAN :
       LET answer == deleteUserPickAction(userPicksTable, id, dbOk)
       IN /\ userPicksTable' = answer.table
          /\ response' = Response("deleteUserPickAction", dbOk, answer)
                            @@ Target(id, userPicksTable)
  /\ UNCHANGED <<stripeVars, form, page, nbaPicksTable, leaderboard>>

\* A caller invokes a data-access action of the NBA picks
CreateNbaPick(d) ==
  /\ \E pick \in d.nbaPicks, dbOk \in BOOLEAN :
     \E id \in {i \in NbaPickIds : ~Has(nbaPicksTable, i)} :
       LET answer == createNbaPickAction(nbaPicksTable, pick, id, dbOk)
       IN /\ nbaPicksTable' = answer.table
          /\ response' = Response("createNbaPickAction", dbOk, answer)
  /\ UNCHANGED <<stripeVars, form, page, userPicksTable, leaderboard>>

GetNbaPicks ==
  /\ \E dbOk \in BOOLEAN :
       LET answer == getNbaPicksAction(nbaPicksTable, dbOk)
       IN /\ nbaPicksTable' = answer.table
          /\ response' = Response("getNbaPicksAction", dbOk, answer)
  /\ UNCHANGED <<stripeVars, form, page, userPicksTable, leaderboard>>

UpdateNbaPick(d) ==
  /\ \E id \in d.nbaPickIds, data \in d.nbaPickUpdates, dbOk \in BOOLEAN :
       LET answer == updateNbaPickAction(nbaPicksTable, id, data, dbOk)
       IN /\ nbaPicksTable' = answer.table
          /\ response' = Response("updateNbaPickAction", dbOk, answer)
                            @@ Target(id, nbaPicksTable) @@ [data |-> data]
  /\ UNCHANGED <<stripeVars, form, page, userPicksTable, leaderboard>>

DeleteNbaPick(d) ==
  /\ \E id \in d.nbaPickIds, dbOk \in BOOLEAN :
       LET answer == deleteNbaPickAction(nbaPicksTable, id, dbOk)
       IN /\ nbaPicksTable' = answer.table
          /\ response' = Response("deleteNbaPickAction", dbOk, answer)
                            @@ Target(id, nbaPicksTable)
  /\ UNCHANGED <<stripeVars, form, page, userPicksTable, leaderboard>>

\* A caller invokes getLeaderboardAction, a server action, with a days of
\* its own
GetLeaderboard(d) ==
  /\ \E days \in d.days, dbOk \in BOOLEAN :
     LET filter == LeaderboardFilter(days)
     IN \E ranking \in IF FilterExecutes(filter)
                          THEN Rankings(FilteredRows(userPicksTable, filter))
                          ELSE {<<>>} :
          response' = Response("getLeaderboardAction", dbOk,
                               getLeaderboardAction(userPicksTable, days,
                                                    ranking, dbOk))
                        @@ [days |-> days]
  /\ UNCHANGED <<stripeVars, form, page, userPicksTable, nbaPicksTable, leaderboard>>

\* A request of the leaderboard page arrives and runs up to its await
RequestLeaderboard(d) ==
  /\ leaderboard.pc = "idle"
  /\ \E searchParams \in d.searchParams :
       leaderboard' = LeaderboardPageBegin(searchParams)
  /\ UNCHANGED <<stripeVars, form, page, userPicksTable, nbaPicksTable, response>>

\* await getLeaderboardAction(daysParam) resolves
LeaderboardResolves ==
  /\ leaderboard.pc = "awaitLeaderboard"
  /\ LET days == leaderboard.calls[Len(leaderboard.calls)]
         filter == LeaderboardFilter(days)
     IN \E dbOk \in BOOLEAN :
        \E ranking \in IF FilterExecutes(filter)
                          THEN Rankings(FilteredRows(userPicksTable, filter))
                          ELSE {<<>>} :
          LET answer == getLeaderboardAction(userPicksTable, days, ranking,
                                             dbOk)
          IN /\ leaderboard' = IF answer.outcome = "returned"
                  THEN LeaderboardPageOnResult(leaderboard, answer.result)
                  ELSE [leaderboard EXCEPT !.pc = "done",
                                           !.response = Rendered("error", "threw")]
  /\ UNCHANGED <<stripeVars, form, page, userPicksTable, nbaPicksTable, response>>

\* The response of the leaderboard page has been sent
LeaderboardReturn ==
  /\ leaderboard.pc = "done"
  /\ leaderboard' = LeaderboardIdle
  /\ UNCHANGED <<stripeVars, form, page, userPicksTable, nbaPicksTable, response>>

\* The number of calls of createUserPickAction a mounted form makes
MaxCalls == 2

\* The orders a query may hand a set of rows over in
Orderings(rows) ==
  {order_ \in [1..Cardinality(rows) -> rows] :
     \A i, j \in DOMAIN order_ : i # j => order_[i] # order_[j]}

\* The my-picks page renders the form for a signed-in user with the picks
\* getUserPicksAction gave, or with none when it failed
MountForm(d) ==
  /\ form.pc = "unmounted"
  /\ \E userId \in d.formUserIds, dbOk \in BOOLEAN :
       LET picksResult == getUserPicksAction(userPicksTable, userId,
                                             dbOk).result
       IN \E existingPicks \in IF picksResult.isSuccess
                                 THEN Orderings(picksResult.data)
                                 ELSE {<<>>} :
            form' = PicksForm(userId, existingPicks)
  /\ UNCHANGED <<stripeVars, page, userPicksTable, nbaPicksTable, response,
                 leaderboard>>

\* The user leaves the page while no call is outstanding
UnmountForm ==
  /\ form.pc = "mounted" /\ form.pending = <<>>
  /\ form' = FormUnmounted
  /\ UNCHANGED <<stripeVars, page, userPicksTable, nbaPicksTable, response,
                 leaderboard>>

\* The user types in an input; the inputs are disabled while isCreating
ChangeGameId(d) ==
  /\ form.pc = "mounted" /\ ~form.isCreating
  /\ \E value \in d.texts : form' = setGameId(form, value)
  /\ UNCHANGED <<stripeVars, page, userPicksTable, nbaPicksTable, response,
                 leaderboard>>

ChangeUserPick(d) ==
  /\ form.pc = "mounted" /\ ~form.isCreating
  /\ \E value \in d.texts : form' = setUserPick(form, value)
  /\ UNCHANGED <<stripeVars, page, userPicksTable, nbaPicksTable, response,
                 leaderboard>>

\* The user submits the form; the button is disabled while isCreating.
\* The table has room for the row the call may insert, and the form has
\* made fewer than MaxCalls calls.
SubmitForm ==
  /\ form.pc = "mounted" /\ ~form.isCreating
  /\ \E id \in UserPickIds : ~Has(userPicksTable, id)
  /\ Len(form.calls) < MaxCalls
  /\ form' = handleCreatePickBegin(form)
  /\ UNCHANGED <<stripeVars, page, userPicksTable, nbaPicksTable, response,
                 leaderboard>>

\* await createUserPickAction(...) settles: the server ran the action and
\* its envelope arrived, or the call was lost on the way there, or the
\* server ran the action and its answer was lost
CreateSettles ==
  /\ form.pc = "mounted" /\ form.pending # <<>>
  /\ \E dbOk \in BOOLEAN, arrives \in {"answer", "nothing", "no answer"} :
     \E id \in {i \in UserPickIds : ~Has(userPicksTable, i)} :
       LET answer == createUserPickAction(userPicksTable, profilesTable,
                                          Head(form.pending), id, dbOk)
       IN /\ userPicksTable' = IF arrives = "nothing" THEN userPicksTable
                                                      ELSE answer.table
          /\ form' = handleCreatePickOnSettled(
                       form,
                       IF arrives = "answer" THEN answer
                                             ELSE Throws(userPicksTable))
  /\ UNCHANGED <<stripeVars, page, nbaPicksTable, response, leaderboard>>

\* A request of the AI picks page arrives
RequestAiPicks ==
  /\ page.pc = "idle"
  /\ page' = AiPicksPageBegin
  /\ UNCHANGED <<stripeVars, form, userPicksTable, nbaPicksTable, response,
                 leaderboard>>

\* await auth() resolves: with the user of the session, or with none
AuthResolves(d) ==
  /\ page.pc = "awaitAuth"
  /\ \E userId \in d.sessionUserIds : page' = AiPicksPageOnAuth(page, userId)
  /\ UNCHANGED <<stripeVars, form, userPicksTable, nbaPicksTable, response,
                 leaderboard>>

\* The history of revocations after the page has read the profile of
\* userId: whether the user was revoked at the read
ReadWhileRevoked(userId) ==
  IF userId \in UserIds
    THEN [revoked EXCEPT ![userId].readClaimed = revoked[userId].claimed,
                         ![userId].readBound = revoked[userId].bound]
    ELSE revoked

\* await getProfileByUserIdAction(userId) resolves
ProfileResolves ==
  /\ page.pc = "awaitProfile"
  /\ \E profileResult \in ProfileOutcomes(profilesTable, page.userId) :
       page' = AiPicksPageOnProfile(page, profileResult)
  /\ revoked' = ReadWhileRevoked(page.userId)
  /\ UNCHANGED <<profilesTable, inv, tableAtCall, order, delivered, form,
                 userPicksTable, nbaPicksTable, response, leaderboard>>

\* await getNbaPicksAction() resolves
PicksResolve ==
  /\ page.pc = "awaitPicks"
  /\ \E dbOk \in BOOLEAN :
       page' = AiPicksPageOnPicks(page,
                 getNbaPicksAction(nbaPicksTable, dbOk).result)
  /\ UNCHANGED <<stripeVars, form, userPicksTable, nbaPicksTable, response,
                 leaderboard>>

\* The response of the AI picks page has been sent
AiPicksReturn ==
  /\ page.pc = "done"
  /\ page' = PageIdle
  /\ UNCHANGED <<stripeVars, form, userPicksTable, nbaPicksTable, response,
                 leaderboard>>

\* The inputs of the sequential specification: every argument, empty ones
\* and a user without a profile included, and the whole status and
\* metadata vocabulary
Wide ==
  [userIds |-> ArgUserIds,
   subscriptionIds |-> SubscriptionIds \cup {""},
   customerIds |-> CustomerIds \cup {""},
   productIds |-> ProductIds \cup {""},
   statuses |-> AllStatuses,
   memberships |-> MetadataMemberships,
   history |-> TRUE,
   order |-> FALSE]

\* One invocation at a time
Next ==
  \/ CallUpdateStripeCustomer(1, Wide)
  \/ CallManageSubscriptionStatusChange(1, Wide)
  \/ SubscriptionSettles(1, Wide)
  \/ ProductSettles(1, Wide)
  \/ UpdateResolves(1, Wide)
  \/ Return(1, Wide)

Spec == Init /\ [][Next]_vars

\* The inputs of the concurrent specification: events of one customer and
\* one subscription, answered from a reduced vocabulary
Narrow ==
  [userIds |-> UserIds,
   subscriptionIds |-> {"sub_1"},
   customerIds |-> {"cus_1", ""},
   productIds |-> ProductIds,
   statuses |-> {"active", "canceled"},
   memberships |-> {"free", "pro", "enterprise"},
   history |-> FALSE,
   order |-> FALSE]

\* Two invocations in flight, interleaving at their awaits
NextRace ==
  \E s \in Slots :
    \/ CallUpdateStripeCustomer(s, Narrow)
    \/ CallManageSubscriptionStatusChange(s, Narrow)
    \/ SubscriptionSettles(s, Narrow)
    \/ ProductSettles(s, Narrow)
    \/ UpdateResolves(s, Narrow)
    \/ Return(s, Narrow)

SpecRace == Init /\ [][NextRace]_vars

\* The inputs of the specification of the write order: the events of one
\* customer of one user, the order of the fetches and of the writes kept
Ordered ==
  [userIds |-> {"u1"},
   subscriptionIds |-> {"sub_1"},
   customerIds |-> {"cus_1"},
   productIds |-> ProductIds,
   statuses |-> {"active", "canceled"},
   memberships |-> {"free", "pro"},
   history |-> FALSE,
   order |-> TRUE]

\* A bind, and reconciles of two slots interleaving at their awaits
NextOrder ==
  \/ CallUpdateStripeCustomer(1, Ordered)
  \/ \E s \in Slots :
       \/ CallManageSubscriptionStatusChange(s, Ordered)
       \/ SubscriptionSettles(s, Ordered)
       \/ ProductSettles(s, Ordered)
       \/ UpdateResolves(s, Ordered)
       \/ Return(s, Ordered)

SpecOrder == Init /\ [][NextOrder]_vars

\* The inputs of the specification of the data-access actions: picks of a
\* user that has a profile and of one that has none, one update of each
\* table, and four values of the days of the leaderboard
UserPick(userId, result) ==
  [userId |-> userId, gameId |-> "g1", pick |-> "home", result |-> result]
NbaPick(spreadPick) ==
  [gameId |-> "g1", spreadPick |-> spreadPick, explanation |-> Null]
PicksInputs ==
  [userPicks |-> {UserPick("u1", Null), UserPick("u9", Null)},
   pickUserIds |-> {"u1", "u9"},
   userPickIds |-> UserPickIds,
   userPickUpdates |-> {[result |-> "win"], [userId |-> "u9"]},
   nbaPicks |-> {NbaPick("home")},
   nbaPickIds |-> NbaPickIds,
   nbaPickUpdates |-> {[spreadPick |-> "away"]},
   days |-> {NotANumberValue, Integer(7), Integer(0), Infinity(FALSE)}]

\* The data-access actions, called one after the other
NextPicks ==
  \/ CreateUserPick(PicksInputs)
  \/ GetUserPicks(PicksInputs)
  \/ UpdateUserPick(PicksInputs)
  \/ DeleteUserPick(PicksInputs)
  \/ CreateNbaPick(PicksInputs)
  \/ GetNbaPicks
  \/ UpdateNbaPick(PicksInputs)
  \/ DeleteNbaPick(PicksInputs)
  \/ GetLeaderboard(PicksInputs)

SpecPicks == Init /\ [][NextPicks]_vars

\* The values of ?days= the leaderboard page is requested with: none, the
\* empty one, counts, a zero, a negative one, text, a count followed by
\* text, a fraction, padded ones, and a count of 310 digits
ManyNines == [i \in 1..310 |-> "9"]
DaysValues ==
  {<<>>, <<"7">>, <<"3", "0">>, <<"0">>, <<"-", "3">>, <<"a", "b", "c">>,
   <<"7", "a", "b", "c">>, <<"1", ".", "5">>, <<" ", "1", "2">>,
   <<"0", "7">>, <<"+", "5">>, ManyNines}

\* The inputs of the specification of the leaderboard: picks of two users,
\* settled or not, one of them ten days old, and every value of ?days=
LeaderboardInputs ==
  [userPicks |-> {UserPick("u1", "win"), UserPick("u1", Null),
                  UserPick("u2", Null),
                  [UserPick("u2", "win") EXCEPT !.userId = "u2"]
                    @@ [age |-> 10]},
   searchParams |-> {NoDays} \cup {[days |-> v] : v \in DaysValues}]

\* Picks are made while the leaderboard page is requested
NextLeaderboard ==
  \/ CreateUserPick(LeaderboardInputs)
  \/ RequestLeaderboard(LeaderboardInputs)
  \/ LeaderboardResolves
  \/ LeaderboardReturn

SpecLeaderboard == Init /\ [][NextLeaderboard]_vars

\* The inputs of the specification of the AI picks page: the events of one
\* customer, and sessions of no user, of the users that have a profile and
\* of one that has none
Gated ==
  [userIds |-> {"u1"},
   subscriptionIds |-> {"sub_1"},
   customerIds |-> {"cus_1"},
   productIds |-> ProductIds,
   statuses |-> {"active", "canceled"},
   memberships |-> {"free", "pro"},
   history |-> FALSE,
   order |-> FALSE,
   sessionUserIds |-> {Null, "", "u1", "u2", "u9"},
   nbaPicks |-> {NbaPick("home")}]

\* Binds and reconciles, one at a time, while the AI picks page is
\* requested and picks are published
NextPage ==
  \/ CallUpdateStripeCustomer(1, Gated)
  \/ CallManageSubscriptionStatusChange(1, Gated)
  \/ SubscriptionSettles(1, Gated)
  \/ ProductSettles(1, Gated)
  \/ UpdateResolves(1, Gated)
  \/ Return(1, Gated)
  \/ CreateNbaPick(Gated)
  \/ RequestAiPicks
  \/ AuthResolves(Gated)
  \/ ProfileResolves
  \/ PicksResolve
  \/ AiPicksReturn

SpecPage == Init /\ [][NextPage]_vars

----------------------------------------------------------------------------
(* Vocabulary of the properties *)

\* The two forms of ActionState
SuccessForm(envelope) ==
  DOMAIN envelope = {"isSuccess", "message", "data"} /\ envelope.isSuccess
FailureForm(envelope) ==
  DOMAIN envelope = {"isSuccess", "message"} /\ ~envelope.isSuccess

Bind(iv) == iv.op = "updateStripeCustomer"
Reconcile(iv) == iv.op = "manageSubscriptionStatusChange"
Succeeded(iv) == iv.pc = "done" /\ iv.outcome = "returned"
Failed(iv) == iv.pc = "done" /\ iv.outcome = "threw"
Issued(iv, fn) == \E i \in 1..Len(iv.calls) : iv.calls[i].fn = fn
LastCall(iv) == iv.calls[Len(iv.calls)]

\* The declared tier of a fetched product that has metadata
HasMetadata(product) == product # NullObject /\ product.metadata # NullObject
DeclaredTier(iv) == iv.product.metadata.membership

\* How many times the invocation has issued the external call fn
Count(iv, fn) == Cardinality({i \in 1..Len(iv.calls) : iv.calls[i].fn = fn})
SubscriptionReads(iv) == Count(iv, "stripe.subscriptions.retrieve")
ProductReads(iv) == Count(iv, "stripe.products.retrieve")
ProfileWrites(iv) ==
  Count(iv, "updateProfileAction")
    + Count(iv, "updateProfileByStripeCustomerIdAction")

\* The steps of an invocation that can fail, read off what the environment
\* answered: an empty argument; a subscription fetch that is over and
\* brought no subscription; a product fetch that is over and brought no
\* product, no metadata or a tier outside the enum; a write the store
\* reported as failed
Started(iv) == iv.op # "none"
ArgumentEmpty(iv) ==
  /\ Started(iv)
  /\ \/ iv.subscriptionId = "" \/ iv.customerId = ""
     \/ Bind(iv) /\ iv.userId = ""
     \/ Reconcile(iv) /\ iv.productId = ""
SubscriptionFetchFailed(iv) ==
  /\ Started(iv) /\ ~ArgumentEmpty(iv)
  /\ iv.pc # "awaitSubscription" /\ iv.subscription = NullObject
ProductFetchOver(iv) ==
  /\ Reconcile(iv) /\ iv.subscription # NullObject /\ iv.pc # "awaitProduct"
ProductFetchFailed(iv) == ProductFetchOver(iv) /\ ~HasMetadata(iv.product)
TierInvalid(iv) ==
  /\ ProductFetchOver(iv) /\ HasMetadata(iv.product)
  /\ DeclaredTier(iv) \notin membershipEnum
WriteFailed(iv) == iv.result # NullObject /\ ~iv.result.isSuccess
StepFailed(iv) ==
  \/ ArgumentEmpty(iv) \/ SubscriptionFetchFailed(iv)
  \/ ProductFetchFailed(iv) \/ TierInvalid(iv) \/ WriteFailed(iv)

\* The Status Mapper as the design states it (section 4.1)
StatusMapper(status, declaredTier) ==
  IF status \in {"active", "trialing"} THEN declaredTier ELSE "free"

\* The design's error kinds (section 7), read off the messages the code
\* throws
ErrorKind(error) ==
  CASE error.message \in {MissingBindParams, MissingReconcileParams}
         -> "ValidationError"
    [] error.message \in {StripeError.message, SubscriptionNotRetrieved,
                          ProductNotRetrieved}
         -> "DependencyError"
    [] error.message \in {InvalidMembershipPrefix \o m :
                            m \in MetadataMemberships \ {"free", "pro"}}
         -> "DataIntegrityError"
    [] error.message \in {BindUpdateFailed, ReconcileUpdateFailed}
         -> "PersistenceError"
    [] OTHER -> "Error"

\* The invocation of slot 1 has left every profile as it was at the call
TableUntouched == profilesTable = tableAtCall[1]

----------------------------------------------------------------------------
(* Properties *)

\* C1: a successful reconcile has written, onto the profiles that carried
\* customerId at the call and onto no other, membership = Status Mapper
\* (fetched status, declared tier) and stripeSubscriptionId = the id of the
\* fetched subscription, and has returned the membership it wrote.
C1_ReconcileWritesEffectiveTier ==
  LET iv == inv[1]
  IN (Reconcile(iv) /\ Succeeded(iv)) =>
       LET tier == StatusMapper(iv.subscription.status, DeclaredTier(iv))
       IN /\ "" \notin {iv.subscriptionId, iv.customerId, iv.productId}
          /\ LastCall(iv) =
               Call("updateProfileByStripeCustomerIdAction", iv.customerId,
                    [stripeSubscriptionId |-> iv.subscription.id,
                     membership |-> tier])
          /\ iv.returnedMembership = tier
          /\ \E u \in UserIds :
               tableAtCall[1][u].stripeCustomerId = iv.customerId
          /\ \A u \in UserIds :
               profilesTable[u] =
                 IF tableAtCall[1][u].stripeCustomerId = iv.customerId
                   THEN [tableAtCall[1][u] EXCEPT
                           !.membership = tier,
                           !.stripeSubscriptionId = iv.subscription.id]
                   ELSE tableAtCall[1][u]

\* A reconcile that granted pro, for a subscription whose fetched id is not
\* the id the caller passed, while another profile carries another customer
C1_Witness ==
  /\ Reconcile(inv[1]) /\ Succeeded(inv[1])
  /\ inv[1].returnedMembership = "pro"
  /\ inv[1].subscription.id # inv[1].subscriptionId
  /\ \E u, v \in UserIds :
       /\ profilesTable[u].stripeCustomerId = inv[1].customerId
       /\ profilesTable[u].membership = "pro"
       /\ profilesTable[v].stripeCustomerId \notin {Null, inv[1].customerId}

\* C2: whenever the Status Mapper was applied to a status in
\* {active, trialing}, its output is the declared tier, free or pro.
C2_ActiveTrialingPassThrough ==
  \A s \in Slots :
    (inv[s].membershipStatus # Null
       /\ inv[s].subscription.status \in {"active", "trialing"}) =>
      /\ DeclaredTier(inv[s]) \in {"free", "pro"}
      /\ inv[s].membershipStatus = DeclaredTier(inv[s])

\* Scenario 3: mapStatus("trialing", "free") = "free"
C2_Witness ==
  /\ inv[1].membershipStatus = "free"
  /\ inv[1].subscription.status = "trialing"
  /\ DeclaredTier(inv[1]) = "free"

\* C3: whenever the Status Mapper was applied to a status in {canceled,
\* incomplete, incomplete_expired, past_due, paused, unpaid}, its output is
\* free, whatever the declared tier.
C3_NegativeStatusesFree ==
  \A s \in Slots :
    (inv[s].membershipStatus # Null
       /\ inv[s].subscription.status \in
            {"canceled", "incomplete", "incomplete_expired", "past_due",
             "paused", "unpaid"}) =>
      inv[s].membershipStatus = "free"

\* Scenario 2 with a past-due subscription: a pro product maps to free
C3_Witness ==
  /\ inv[1].membershipStatus = "free"
  /\ inv[1].subscription.status = "past_due"
  /\ DeclaredTier(inv[1]) = "pro"

\* C4: whenever the Status Mapper was applied to a status outside the
\* recognized vocabulary, its output is free, never pro.
C4_UnrecognizedStatusFree ==
  \A s \in Slots :
    (inv[s].membershipStatus # Null
       /\ inv[s].subscription.status \notin
            {"active", "trialing", "canceled", "incomplete",
             "incomplete_expired", "past_due", "paused", "unpaid"}) =>
      inv[s].membershipStatus = "free"

\* An unrecognized status with a pro product
C4_Witness ==
  /\ inv[1].membershipStatus = "free"
  /\ inv[1].subscription.status = "pending_review"
  /\ DeclaredTier(inv[1]) = "pro"

\* C5: a reconcile that fetched a product whose declared tier is not
\* exactly "free" or "pro" has failed with a DataIntegrityError, has issued
\* no profile write, and every profile is as it was.
C5_InvalidTierFails ==
  LET iv == inv[1]
  IN (Reconcile(iv) /\ HasMetadata(iv.product)
        /\ DeclaredTier(iv) \notin {"free", "pro"}) =>
       /\ Failed(iv)
       /\ ErrorKind(iv.error) = "DataIntegrityError"
       /\ ~Issued(iv, "updateProfileByStripeCustomerIdAction")
       /\ ~Issued(iv, "updateProfileAction")
       /\ iv.returnedMembership = Null
       /\ TableUntouched

\* Scenario 4, for a customer whose profile is pro: the tier "enterprise"
C5_Witness ==
  /\ Reconcile(inv[1]) /\ Failed(inv[1])
  /\ HasMetadata(inv[1].product) /\ DeclaredTier(inv[1]) = "enterprise"
  /\ inv[1].subscription.status = "active"
  /\ \E u \in UserIds :
       /\ profilesTable[u].stripeCustomerId = inv[1].customerId
       /\ profilesTable[u].membership = "pro"

\* C6: a reconcile whose subscription fetch settled without a subscription
\* has failed with a DependencyError having issued that one call only: no
\* product fetch, no profile write.
C6_SubscriptionFetchFailureAborts ==
  LET iv == inv[1]
  IN (Reconcile(iv) /\ Issued(iv, "stripe.subscriptions.retrieve")
        /\ iv.pc # "awaitSubscription" /\ iv.subscription = NullObject) =>
       /\ Failed(iv)
       /\ ErrorKind(iv.error) = "DependencyError"
       /\ iv.calls = <<getSubscription(iv.subscriptionId)>>
       /\ TableUntouched

\* Scenario 5: the provider rejected the subscription fetch
C6_Witness ==
  /\ Reconcile(inv[1]) /\ Failed(inv[1])
  /\ inv[1].error = StripeError
  /\ Len(inv[1].calls) = 1

\* C7: a bind with an empty userId, subscriptionId or customerId, and a
\* reconcile with an empty subscriptionId, customerId or productId, has
\* failed with a ValidationError without issuing any external call.
C7_EmptyArgumentFailsFirst ==
  LET iv == inv[1]
  IN ((Bind(iv) /\ "" \in {iv.userId, iv.subscriptionId, iv.customerId})
        \/ (Reconcile(iv)
              /\ "" \in {iv.subscriptionId, iv.customerId, iv.productId})) =>
       /\ Failed(iv)
       /\ ErrorKind(iv.error) = "ValidationError"
       /\ iv.calls = <<>>
       /\ TableUntouched

\* Scenario 6: bind with userId = "" and the other arguments given
C7_Witness ==
  /\ Bind(inv[1]) /\ Failed(inv[1])
  /\ inv[1].userId = "" /\ inv[1].subscriptionId # ""
  /\ inv[1].customerId # ""

\* C8: a successful bind has written stripeCustomerId = the caller's
\* customerId and stripeSubscriptionId = the id of the fetched subscription
\* onto the profile of userId and no other, and has returned the profile
\* the store reported; a bind whose store answer reports failure has failed
\* with a PersistenceError.
C8_BindWritesFetchedSubscription ==
  LET iv == inv[1]
  IN /\ (Bind(iv) /\ Succeeded(iv)) =>
          /\ LastCall(iv) =
               Call("updateProfileAction", iv.userId,
                    [stripeCustomerId |-> iv.customerId,
                     stripeSubscriptionId |-> iv.subscription.id])
          /\ iv.result.isSuccess
          /\ iv.returnedProfile = iv.result.data
          /\ iv.userId \in UserIds
          /\ profilesTable =
               [tableAtCall[1] EXCEPT ![iv.userId] =
                  [@ EXCEPT !.stripeCustomerId = iv.customerId,
                            !.stripeSubscriptionId = iv.subscription.id]]
          /\ iv.returnedProfile = profilesTable[iv.userId]
     /\ (Bind(iv) /\ iv.pc = "done" /\ iv.result # NullObject
           /\ ~iv.result.isSuccess) =>
          /\ Failed(iv)
          /\ ErrorKind(iv.error) = "PersistenceError"
          /\ iv.returnedProfile = NullObject
          /\ TableUntouched

\* A bind that succeeded with a fetched subscription id other than the id
\* the caller passed
C8_Witness ==
  /\ Bind(inv[1]) /\ Succeeded(inv[1])
  /\ inv[1].subscription.id # inv[1].subscriptionId
  /\ profilesTable[inv[1].userId].stripeSubscriptionId = inv[1].subscription.id

\* C9: a reconcile that reached its profile write fails with a
\* PersistenceError whenever no profile carried customerId at the call or
\* the store answered with a failure; it then returns no tier and every
\* profile's membership is as it was.
C9_ReconcileWriteFailure ==
  LET iv == inv[1]
  IN (Reconcile(iv) /\ iv.pc = "done"
        /\ Issued(iv, "updateProfileByStripeCustomerIdAction")
        /\ (\/ ~iv.result.isSuccess
            \/ \A u \in UserIds :
                 tableAtCall[1][u].stripeCustomerId # iv.customerId)) =>
       /\ Failed(iv)
       /\ ErrorKind(iv.error) = "PersistenceError"
       /\ iv.returnedMembership = Null
       /\ \A u \in UserIds :
            profilesTable[u].membership = tableAtCall[1][u].membership

\* A reconcile for a customer that no bind has stored yet, with an active
\* subscription to a pro product
C9_Witness ==
  /\ Reconcile(inv[1]) /\ Failed(inv[1])
  /\ inv[1].membershipStatus = "pro"
  /\ \A u \in UserIds : profilesTable[u].stripeCustomerId = Null

\* C10: in every state reachable by interleaved binds and reconciles, the
\* membership of every profile is free or pro.
C10_MembershipIsFreeOrPro ==
  \A u \in DOMAIN profilesTable :
    profilesTable[u].membership \in {"free", "pro"}

\* Two invocations await their profile writes while a profile is pro
C10_Witness ==
  /\ inv[1].pc = "awaitUpdate" /\ inv[2].pc = "awaitUpdate"
  /\ Reconcile(inv[1])
  /\ \E u \in UserIds : profilesTable[u].membership = "pro"

\* C12: every bind, successful or failing, leaves the membership of every
\* profile as it was when the bind was called.
C12_BindLeavesMembership ==
  LET iv == inv[1]
  IN Bind(iv) =>
       \A u \in UserIds :
         profilesTable[u].membership = tableAtCall[1][u].membership

\* A successful bind of a pro profile to another customer
C12_Witness ==
  /\ Bind(inv[1]) /\ Succeeded(inv[1])
  /\ tableAtCall[1][inv[1].userId].membership = "pro"
  /\ tableAtCall[1][inv[1].userId].stripeCustomerId # inv[1].customerId
  /\ profilesTable[inv[1].userId].stripeCustomerId = inv[1].customerId

\* C13 as stated: an invocation that has ended has performed exactly one
\* subscription read, at most one product read and exactly one profile
\* write.
C13_ExactlyOneReadAndWrite ==
  LET iv == inv[1]
  IN iv.pc = "done" =>
       /\ SubscriptionReads(iv) = 1
       /\ ProductReads(iv) <= 1
       /\ ProfileWrites(iv) = 1

\* C13: an invocation performs at most one subscription read, at most one
\* product read (a bind none) and at most one profile write; a successful
\* one has performed exactly one subscription read and exactly one write
\* (a successful reconcile exactly one product read as well); an invocation
\* that fails performs only the calls that precede the failing step, none
\* at all when an argument is empty.
C13_AtMostOneReadAndWrite ==
  LET iv == inv[1]
  IN /\ SubscriptionReads(iv) <= 1
     /\ ProductReads(iv) <= 1
     /\ ProfileWrites(iv) <= 1
     /\ Bind(iv) => ProductReads(iv) = 0
     /\ Succeeded(iv) =>
          /\ SubscriptionReads(iv) = 1
          /\ ProfileWrites(iv) = 1
          /\ Reconcile(iv) => ProductReads(iv) = 1
     /\ (Failed(iv) /\ ErrorKind(iv.error) = "ValidationError") =>
          iv.calls = <<>>
     /\ (Failed(iv) /\ ErrorKind(iv.error) \in
            {"DependencyError", "DataIntegrityError"}) =>
          ProfileWrites(iv) = 0

\* A bind that failed on the rejected subscription read, without a write,
\* after exactly one read
C13_Witness ==
  /\ Bind(inv[1]) /\ Failed(inv[1])
  /\ inv[1].error = StripeError
  /\ SubscriptionReads(inv[1]) = 1
  /\ ProfileWrites(inv[1]) = 0

\* C14: within one invocation each external call is issued at most once;
\* once a step has failed the invocation has ended in failure, having
\* issued the calls that precede the failing step and no other.
C14_NoRetries ==
  LET iv == inv[1]
      fns == <<"stripe.subscriptions.retrieve",
               IF Bind(iv) THEN "updateProfileAction"
                           ELSE "stripe.products.retrieve",
               "updateProfileByStripeCustomerIdAction">>
  IN /\ Len(iv.calls) <= IF Bind(iv) THEN 2 ELSE 3
     /\ \A i \in 1..Len(iv.calls) : iv.calls[i].fn = fns[i]
     /\ StepFailed(iv) => Failed(iv)
     /\ ArgumentEmpty(iv) => Len(iv.calls) = 0
     /\ SubscriptionFetchFailed(iv) => Len(iv.calls) = 1
     /\ (ProductFetchFailed(iv) \/ TierInvalid(iv)) => Len(iv.calls) = 2
     /\ WriteFailed(iv) => Len(iv.calls) = IF Bind(iv) THEN 2 ELSE 3

\* A reconcile that ended in failure on the store's report, with each of
\* its three calls issued once
C14_Witness ==
  /\ Reconcile(inv[1]) /\ WriteFailed(inv[1]) /\ Failed(inv[1])
  /\ SubscriptionReads(inv[1]) = 1 /\ ProductReads(inv[1]) = 1
  /\ ProfileWrites(inv[1]) = 1

\* C15: an invocation in which a step failed raises an error and resolves
\* with neither a profile nor a tier; an invocation that resolved normally
\* had no failing step.
C15_FailuresAreRaised ==
  LET iv == inv[1]
  IN /\ (StepFailed(iv) \/ iv.error # NullObject) =>
          /\ iv.pc = "done" /\ iv.outcome = "threw"
          /\ iv.error # NullObject /\ iv.error.instanceOfError
          /\ iv.returnedProfile = NullObject
          /\ iv.returnedMembership = Null
     /\ Succeeded(iv) => ~StepFailed(iv)

\* A reconcile whose product carried a tier outside the enum has raised the
\* error and returned nothing
C15_Witness ==
  /\ TierInvalid(inv[1]) /\ inv[1].outcome = "threw"
  /\ ErrorKind(inv[1].error) = "DataIntegrityError"
  /\ inv[1].returnedMembership = Null

\* C19: the step that evaluates the Status Mapper, on whatever status the
\* subscription carries and a declared tier of the enum, yields a tier of
\* the enum, raises nothing, and leaves every profile, the fetched
\* subscription and the other invocation as they were; over its whole
\* domain the Status Mapper yields a tier of the enum.
C19_StatusMapperTotalAndPure ==
  [][(inv[1].membershipStatus = Null /\ inv'[1].membershipStatus # Null) =>
       /\ \A status \in AllStatuses, declaredTier \in membershipEnum :
            getMembershipStatus(status, declaredTier) \in membershipEnum
       /\ DeclaredTier(inv'[1]) \in membershipEnum
       /\ inv'[1].membershipStatus \in membershipEnum
       /\ inv'[1].membershipStatus =
            getMembershipStatus(inv[1].subscription.status,
                                DeclaredTier(inv'[1]))
       /\ inv'[1].error = NullObject /\ inv'[1].outcome = "pending"
       /\ profilesTable' = profilesTable
       /\ inv'[1].subscription = inv[1].subscription
       /\ inv'[2] = inv[2]]_vars

\* The Status Mapper has been evaluated on the empty status and pro
C19_Witness ==
  /\ Reconcile(inv[1]) /\ inv[1].pc = "awaitUpdate"
  /\ inv[1].subscription.status = ""
  /\ DeclaredTier(inv[1]) = "pro"
  /\ inv[1].membershipStatus = "free"

\* C20: a reconcile issues its calls in the order subscription fetch,
\* product fetch, profile write, none before the arguments were found
\* non-empty; the product fetch only with the subscription fetched, the
\* tier validation only with the product fetched, and the profile write
\* only with the subscription and the product fetched and the declared
\* tier found in the enum.
C20_ReconcileStepOrder ==
  LET iv == inv[1]
      steps == <<"stripe.subscriptions.retrieve", "stripe.products.retrieve",
                 "updateProfileByStripeCustomerIdAction">>
  IN Reconcile(iv) =>
       /\ Len(iv.calls) <= 3
       /\ \A i \in 1..Len(iv.calls) : iv.calls[i].fn = steps[i]
       /\ Len(iv.calls) >= 1 => ~ArgumentEmpty(iv)
       /\ iv.pc = "awaitSubscription" =>
            Len(iv.calls) = 1 /\ iv.subscription = NullObject
       /\ Len(iv.calls) >= 2 => iv.subscription # NullObject
       /\ iv.pc = "awaitProduct" =>
            Len(iv.calls) = 2 /\ iv.product = NullObject
       /\ (Failed(iv) /\ ErrorKind(iv.error) = "DataIntegrityError") =>
            Len(iv.calls) = 2 /\ HasMetadata(iv.product)
       /\ Len(iv.calls) = 3 =>
            /\ iv.subscription # NullObject
            /\ HasMetadata(iv.product)
            /\ DeclaredTier(iv) \in membershipEnum
            /\ iv.membershipStatus # Null
       /\ iv.pc = "awaitUpdate" => Len(iv.calls) = 3
       /\ iv.result # NullObject => Len(iv.calls) = 3

\* A reconcile at its last step: the write is issued after both fetches
C20_Witness ==
  /\ Reconcile(inv[1]) /\ inv[1].pc = "awaitUpdate"
  /\ Len(inv[1].calls) = 3
  /\ inv[1].calls[2].fn = "stripe.products.retrieve"
  /\ inv[1].calls[3].fn = "updateProfileByStripeCustomerIdAction"
  /\ DeclaredTier(inv[1]) = "free"

\* C16: when two reconciles of the same customer, interleaved at their
\* awaits, have both succeeded, every profile of the customer carries the
\* tier returned by the one whose write was applied last, whichever of the
\* two fetched the subscription last.
C16_LastWriteWins ==
  (/\ Reconcile(inv[1]) /\ Succeeded(inv[1])
   /\ Reconcile(inv[2]) /\ Succeeded(inv[2])
   /\ inv[1].customerId = inv[2].customerId) =>
    /\ order.lastWriter \in Slots
    /\ order.lastFetcher \in Slots
    /\ \A u \in UserIds :
         profilesTable[u].stripeCustomerId = inv[1].customerId =>
           profilesTable[u].membership =
             inv[order.lastWriter].returnedMembership

\* Slot 2 fetched the subscription last, slot 1 wrote last: the profile
\* carries the tier of slot 1, which is not the tier of slot 2
C16_Witness ==
  /\ Reconcile(inv[1]) /\ Succeeded(inv[1])
  /\ Reconcile(inv[2]) /\ Succeeded(inv[2])
  /\ order.lastFetcher = 2 /\ order.lastWriter = 1
  /\ inv[1].returnedMembership # inv[2].returnedMembership
  /\ profilesTable["u1"].stripeCustomerId = inv[1].customerId
  /\ profilesTable["u1"].membership = inv[1].returnedMembership

\* C17 as stated: every call of getLeaderboardAction made by the
\* leaderboard page passes undefined or an integer >= 1 as days, and the
\* value the action interpolates into the query is an integer >= 1.
C17_DaysIsUndefinedOrPositiveInteger ==
  \A i \in 1..Len(leaderboard.calls) :
    LET days == leaderboard.calls[i]
    IN /\ days = NotANumberValue \/ IsPositiveInteger(days)
       /\ LeaderboardFilter(days) # NullObject =>
            IsPositiveInteger(LeaderboardFilter(days).days)

\* C18: a data-access action that was called has returned, not thrown;
\* what it returned is the success form or the failure form of the
\* envelope; when the database did not execute the statement it is the
\* failure form.
C18_ActionsReturnAnEnvelope ==
  response.action # "none" =>
    /\ response.outcome = "returned"
    /\ SuccessForm(response.result) \/ FailureForm(response.result)
    /\ ~response.dbOk => FailureForm(response.result)

\* createUserPickAction has answered a database error with the failure
\* form, and the table has kept the row it had
C18_Witness ==
  /\ response.action = "createUserPickAction"
  /\ ~response.dbOk
  /\ response.result = Fail("Failed to create user pick")
  /\ Has(userPicksTable, "p1") /\ ~Has(userPicksTable, "p2")

\* C11: the AI picks page has called getNbaPicksAction only for a signed-in
\* user whose profile it read and found pro; a request without a user is
\* answered with the redirect to /login, one whose profile was not found
\* with the redirect to /signup, one of a free member with the paywall,
\* and none of the three has called getNbaPicksAction.
C11_PicksOnlyForProMembers ==
  LET signedIn == page.userId \notin {Null, ""}
      profileRead == page.profileResult # NullObject
      profileFound == /\ profileRead /\ page.profileResult.isSuccess
                      /\ page.profileResult.data # NullObject
      fetched == \E i \in 1..Len(page.calls) :
                   page.calls[i] = "getNbaPicksAction"
  IN /\ fetched =>
          /\ signedIn /\ profileFound
          /\ page.profileResult.data.userId = page.userId
          /\ page.profileResult.data.membership = "pro"
     /\ (page.pc \notin {"idle", "awaitAuth"} /\ ~signedIn) =>
          page.response = Redirect("/login") /\ page.calls = <<>>
     /\ (profileRead /\ ~profileFound) =>
          page.response = Redirect("/signup") /\ ~fetched
     /\ (profileFound /\ page.profileResult.data.membership = "free") =>
          page.response = Rendered("paywall", NullObject) /\ ~fetched
     /\ (page.response # NullObject /\ page.response.kind = "rendered"
           /\ page.response.view \in {"picks", "error"}) => fetched

\* The page has rendered the published picks for a member a reconcile
\* made pro
C11_Witness ==
  /\ page.pc = "done"
  /\ page.response.kind = "rendered" /\ page.response.view = "picks"
  /\ page.response.data = Rows(nbaPicksTable)
  /\ Rows(nbaPicksTable) # {}
  /\ page.profileResult.data.membership = "pro"
  /\ page.profileResult.data.stripeCustomerId = "cus_1"

\* C21: a reconcile that issues a write of membership = pro has fetched, in
\* that invocation, a subscription whose status is active or trialing and
\* a product whose declared tier is pro; and a profile that is pro and was
\* not when the invocation was called was written by such a reconcile.
C21_ProOnlyWhenPaid ==
  LET iv == inv[1]
      paid == /\ Reconcile(iv)
              /\ iv.subscription # NullObject
              /\ iv.subscription.status \in {"active", "trialing"}
              /\ HasMetadata(iv.product)
              /\ DeclaredTier(iv) = "pro"
  IN /\ (/\ Reconcile(iv) /\ Len(iv.calls) = 3
          /\ iv.calls[3].data.membership = "pro") => paid
     /\ (Reconcile(iv) /\ iv.returnedMembership = "pro") => paid
     /\ \A u \in UserIds :
          (/\ Started(iv)
           /\ profilesTable[u].membership = "pro"
           /\ tableAtCall[1][u].membership # "pro") => paid

\* A reconcile of a trialing subscription of a pro product has made a free
\* profile pro
C21_Witness ==
  /\ Reconcile(inv[1]) /\ Succeeded(inv[1])
  /\ inv[1].subscription.status = "trialing"
  /\ DeclaredTier(inv[1]) = "pro"
  /\ \E u \in UserIds :
       /\ tableAtCall[1][u].membership = "free"
       /\ profilesTable[u].membership = "pro"

\* C22: in every state binds and reconciles reach from profiles that are
\* free, a profile that is pro carries a stripeSubscriptionId and a
\* stripeCustomerId that are not null.
C22_ProCarriesStripeIds ==
  \A u \in UserIds :
    profilesTable[u].membership = "pro" =>
      /\ profilesTable[u].stripeSubscriptionId # Null
      /\ profilesTable[u].stripeCustomerId # Null

\* A profile that was bound and then reconciled to pro
C22_Witness ==
  /\ profilesTable["u1"].membership = "pro"
  /\ profilesTable["u1"].stripeCustomerId = "cus_1"
  /\ profilesTable["u1"].stripeSubscriptionId = "sub_1"
  /\ profilesTable["u2"].membership = "free"
  /\ profilesTable["u2"].stripeCustomerId = Null

\* ---------------------------------------------------------------------
\* Redelivery: one invocation at a time, the last one that returned kept
\* with the profiles as it left them
Redelivered ==
  [userIds |-> UserIds,
   subscriptionIds |-> {"sub_1"},
   customerIds |-> {"cus_1"},
   productIds |-> ProductIds,
   statuses |-> {"active", "canceled"},
   memberships |-> {"free", "pro"},
   history |-> TRUE,
   order |-> FALSE,
   delivered |-> TRUE]

NextRedelivery ==
  \/ CallUpdateStripeCustomer(1, Redelivered)
  \/ CallManageSubscriptionStatusChange(1, Redelivered)
  \/ SubscriptionSettles(1, Redelivered)
  \/ ProductSettles(1, Redelivered)
  \/ UpdateResolves(1, Redelivered)
  \/ Return(1, Redelivered)

SpecRedelivery == Init /\ [][NextRedelivery]_vars

\* The invocation of slot 1 is a second delivery of the reconcile that
\* returned last: the same three arguments, the profiles as the first
\* delivery left them, and every fetch that has settled brought what it
\* brought the first time
SameArguments(first, second) ==
  /\ Reconcile(first) /\ Reconcile(second)
  /\ second.subscriptionId = first.subscriptionId
  /\ second.customerId = first.customerId
  /\ second.productId = first.productId

SameFetches(first, second) ==
  /\ SubscriptionReads(second) = 1 /\ second.pc # "awaitSubscription"
       => second.subscription = first.subscription
  /\ ProductReads(second) = 1 /\ second.pc # "awaitProduct"
       => second.product = first.product

Redelivery ==
  /\ Succeeded(delivered.inv)
  /\ SameArguments(delivered.inv, inv[1])
  /\ tableAtCall[1] = delivered.table
  /\ SameFetches(delivered.inv, inv[1])

Revocable ==
  [userIds |-> {"u1", "u2"},
   subscriptionIds |-> {"sub_1"},
   customerIds |-> CustomerIds,
   productIds |-> ProductIds,
   statuses |-> {"active", "canceled"},
   memberships |-> {"pro"},
   history |-> FALSE,
   order |-> FALSE,
   revoked |-> TRUE,
   fetchedIds |-> {"sub_1"},
   sessionUserIds |-> {"u1"}]

NextRevocation ==
  \/ CallUpdateStripeCustomer(1, Revocable)
  \/ CallManageSubscriptionStatusChange(1, Revocable)
  \/ SubscriptionSettles(1, Revocable)
  \/ ProductSettles(1, Revocable)
  \/ UpdateResolves(1, Revocable)
  \/ Return(1, Revocable)
  \/ RequestAiPicks
  \/ AuthResolves(Revocable)
  \/ ProfileResolves
  \/ PicksResolve
  \/ AiPicksReturn

SpecRevocation == Init /\ [][NextRevocation]_vars

\* The request being served has read the profile of its user
ProfileRead == page.profileResult # NullObject

FetchesPicks(pg) ==
  \E i \in 1..Len(pg.calls) : pg.calls[i] = "getNbaPicksAction"

ShowsPaywall(pg) ==
  /\ pg.pc = "done" /\ pg.response.kind = "rendered"
  /\ pg.response.view = "paywall"

\* C24 as stated: after a bind of the user to a customer succeeded and a
\* later reconcile for that customer succeeded while the subscription was
\* neither active nor trialing, a request of the user that reads the
\* profile before a reconcile of a live pro subscription succeeds shows
\* the paywall and does not fetch picks.
C24_RevokedUserSeesPaywall ==
  (/\ ProfileRead /\ page.userId \in UserIds
   /\ revoked[page.userId].readClaimed)
    => ShowsPaywall(page) /\ ~FetchesPicks(page)

\* C24: end-to-end revocation.  After a bind of the user to a customer
\* succeeded and a later reconcile for that customer succeeded while the
\* subscription was neither active nor trialing and the profile of the
\* user still carried the customer, a request of the user that reads the
\* profile before a reconcile of a live pro subscription succeeds does not
\* fetch picks and is over at the read: it shows the paywall when the read
\* brought the profile and redirects to /signup when the read failed.
C24_RevokedUserFetchesNoPicks ==
  (/\ ProfileRead /\ page.userId \in UserIds
   /\ revoked[page.userId].readBound)
    => /\ ~FetchesPicks(page)
       /\ page.pc = "done"
       /\ IF page.profileResult.isSuccess
            THEN /\ ShowsPaywall(page)
                 /\ page.profileResult.data.membership = "free"
            ELSE page.response = Redirect("/signup")

\* The user was pro, the reconcile of the canceled subscription of the
\* customer took it away, and the request that read the profile after it
\* has shown the paywall
C24_Witness ==
  /\ revoked["u1"].readBound
  /\ page.userId = "u1"
  /\ ShowsPaywall(page) /\ ~FetchesPicks(page)
  /\ page.profileResult.data.stripeCustomerId \in revoked["u1"].customers

\* The ?days= of the request being served: absent or empty, or present
\* and parsing to NaN or to a number below 1
DaysAbsentOrEmpty(lb) ==
  "days" \notin DOMAIN lb.searchParams \/ lb.searchParams.days = <<>>

DaysInvalid(lb) ==
  /\ ~DaysAbsentOrEmpty(lb)
  /\ \/ isNaN(parseInt(lb.searchParams.days))
     \/ LessThan(parseInt(lb.searchParams.days), 1)

\* C25: the leaderboard page never calls getLeaderboardAction for an
\* invalid days.  A request whose days is present and parses to NaN or to
\* a number below 1 is answered with the redirect to /leaderboard and has
\* made no call; a request whose days is absent or empty has called
\* getLeaderboardAction once, with days undefined.
C25_InvalidDaysRedirects ==
  leaderboard.pc # "idle" =>
    /\ DaysInvalid(leaderboard) =>
         /\ leaderboard.pc = "done"
         /\ leaderboard.response = Redirect("/leaderboard")
         /\ leaderboard.calls = <<>>
         /\ leaderboard.result = NullObject
    /\ DaysAbsentOrEmpty(leaderboard) =>
         /\ leaderboard.calls = <<NotANumberValue>>
         /\ LeaderboardFilter(leaderboard.calls[1]) = NullObject

\* ?days=-3 has been answered with the redirect, without a call
C25_Witness ==
  /\ leaderboard.searchParams = [days |-> <<"-", "3">>]
  /\ leaderboard.pc = "done"
  /\ leaderboard.response = Redirect("/leaderboard")
  /\ leaderboard.calls = <<>>

\* ---------------------------------------------------------------------
\* Aggregation: picks of two users with every kind of result are made and
\* the leaderboard is computed, over all time and over the last 7 days
AggregationInputs ==
  [userPicks |->
     {UserPick(u, r) : u \in {"u1", "u2"},
                       r \in {"win", "loss", "push", "void", Null}}
       \cup {UserPick("u1", "win") @@ [age |-> 10]},
   days |-> {NotANumberValue, Integer(7)}]

NextAggregation ==
  \/ CreateUserPick(AggregationInputs)
  \/ GetLeaderboard(AggregationInputs)

SpecAggregation == Init /\ [][NextAggregation]_vars

\* getLeaderboardAction has answered with entries, and no pick has been
\* made since
Aggregated ==
  /\ response.action = "getLeaderboardAction"
  /\ response.outcome = "returned" /\ response.result.isSuccess

\* The picks of a user among rows, and those with one of the results
PicksOf(rows, userId) == {row \in rows : row.userId = userId}
Settled(rows, userId, result) ==
  {row \in PicksOf(rows, userId) : row.result = result}

C27_SettledCountsWithinTotal ==
  Aggregated =>
    LET data == response.result.data
        rows == FilteredRows(userPicksTable, LeaderboardFilter(response.days))
    IN \A i \in DOMAIN data :
         LET e == data[i]
             settled == e.totalWins.value + e.totalLosses.value
                          + e.totalPushes.value
             unsettled == {row \in PicksOf(rows, e.userId) :
                             row.result \notin {"win", "loss", "push"}}
         IN /\ e.totalPicks.kind = "integer" /\ e.totalPicks.value >= 1
            /\ settled <= e.totalPicks.value
            /\ settled < e.totalPicks.value <=> unsettled # {}
            /\ e.totalWins.value <= e.totalPicks.value
            /\ e.winPercentage.numerator <= e.winPercentage.denominator
            /\ e.winPercentage.numerator = e.totalWins.value
            /\ e.winPercentage.denominator = e.totalPicks.value

\* A user with a win and a pick not yet decided: one settled of two
C27_Witness ==
  /\ Aggregated
  /\ Len(response.result.data) = 1
  /\ response.result.data[1].totalPicks = Integer(2)
  /\ response.result.data[1].totalWins = Integer(1)
  /\ response.result.data[1].totalLosses = Integer(0)
  /\ response.result.data[1].totalPushes = Integer(0)
  /\ \E row \in Rows(userPicksTable) : row.result = Null

\* The update and delete actions, the message each gives when no row has
\* the id and the one it gives when the statement fails, and the table
\* each works on
NotFoundMessage ==
  [updateUserPickAction |-> "User pick not found or no update performed",
   deleteUserPickAction |-> "User pick not found to delete",
   updateNbaPickAction |-> "NBA pick not found to update",
   deleteNbaPickAction |-> "NBA pick not found to delete"]

StatementFailedMessage ==
  [updateUserPickAction |-> "Failed to update user pick",
   deleteUserPickAction |-> "Failed to delete user pick",
   updateNbaPickAction |-> "Failed to update NBA pick",
   deleteNbaPickAction |-> "Failed to delete NBA pick"]

Targeted == response.action \in DOMAIN NotFoundMessage

TableOf(action) ==
  IF action \in {"updateUserPickAction", "deleteUserPickAction"}
    THEN userPicksTable ELSE nbaPicksTable

OtherRowsKept(action) ==
  \A i \in DOMAIN response.before :
    i # response.id => TableOf(action)[i] = response.before[i]

\* The statement of the call ran: the database was there, and the update
\* of a row that is there named no user_id without a profile
StatementRan ==
  /\ response.dbOk
  /\ (/\ response.action = "updateUserPickAction"
      /\ Has(response.before, response.id))
       => ("userId" \in DOMAIN response.data
             => response.data.userId \in DOMAIN profilesTable)

\* C28 as stated: an update or a delete of a user pick or an NBA pick
\* whose id matches no row returns the failure envelope with the 'not
\* found' message and leaves the table unchanged; one whose id matches a
\* row returns success and the table changes for that row only.
C28_NotFoundOrSuccess ==
  Targeted =>
    LET table == TableOf(response.action)
    IN IF Has(response.before, response.id)
         THEN /\ response.result.isSuccess
              /\ OtherRowsKept(response.action)
         ELSE /\ response.result
                   = Fail(NotFoundMessage[response.action])
              /\ table = response.before

\* C28: an update or a delete of a user pick or an NBA pick whose
\* statement the database executes returns, when the id matches no row,
\* the failure envelope with the 'not found' message and leaves the table
\* unchanged, and when the id matches a row, success, the table changing
\* for that row only: the row is gone after a delete and carries the new
\* columns after an update.  When the statement fails (a database error,
\* or an update of a user pick to a userId that has no profile) the
\* action returns the failure envelope with the 'Failed to ...' message
\* and leaves the table unchanged.
C28_NotFoundOrSuccessWhenStatementRuns ==
  Targeted =>
    LET table == TableOf(response.action)
        found == Has(response.before, response.id)
    IN /\ response.outcome = "returned"
       /\ (StatementRan /\ ~found) =>
            /\ response.result = Fail(NotFoundMessage[response.action])
            /\ table = response.before
       /\ (StatementRan /\ found) =>
            /\ response.result.isSuccess
            /\ OtherRowsKept(response.action)
            /\ response.action
                 \in {"deleteUserPickAction", "deleteNbaPickAction"}
                 => ~Has(table, response.id)
            /\ response.action
                 \in {"updateUserPickAction", "updateNbaPickAction"}
                 => /\ Has(table, response.id)
                    /\ response.result.data = table[response.id]
                    /\ \A c \in DOMAIN table[response.id] :
                         table[response.id][c]
                           = IF c \in DOMAIN response.data
                               THEN response.data[c]
                               ELSE response.before[response.id][c]
       /\ ~StatementRan =>
            /\ response.result
                 = Fail(StatementFailedMessage[response.action])
            /\ table = response.before

\* A delete of an NBA pick that is not there has answered 'not found'
\* beside a row that stayed
C28_Witness ==
  /\ response.action = "deleteNbaPickAction"
  /\ response.dbOk
  /\ ~Has(response.before, response.id)
  /\ response.result = Fail("NBA pick not found to delete")
  /\ nbaPicksTable = response.before
  /\ \E i \in NbaPickIds : Has(nbaPicksTable, i)

\* ---------------------------------------------------------------------
\* The picks form of one user, mounted, typed in, submitted and left
FormInputs ==
  [formUserIds |-> {"u1"},
   texts |-> {<<>>, <<" ">>, <<" ", "g">>}]

NextForm ==
  \/ MountForm(FormInputs)
  \/ UnmountForm
  \/ ChangeGameId(FormInputs)
  \/ ChangeUserPick(FormInputs)
  \/ SubmitForm
  \/ CreateSettles

SpecForm == Init /\ [][NextForm]_vars

\* A call that is outstanding settles
SpecFormFair == SpecForm /\ WF_vars(CreateSettles)

\* A text that is empty or white space only
Blank(chars) == \A i \in 1..Len(chars) : chars[i] = " "

\* The step is one of the mounted form
FormStep == form.pc = "mounted" /\ form'.pc = "mounted"

\* The step is the completion of the outstanding call
SettleStep == FormStep /\ Len(form'.pending) < Len(form.pending)

\* isCreating is true exactly while a call is outstanding, at most one
\* call is, and no call was made with a blank gameId or pick
IsCreatingWhileOutstanding ==
  form.pc = "mounted" =>
    /\ form.isCreating <=> form.pending # <<>>
    /\ Len(form.pending) <= 1
    /\ \A i \in 1..Len(form.calls) :
         ~Blank(form.calls[i].gameId) /\ ~Blank(form.calls[i].pick)

\* A step taken while a field is blank sets no isCreating and makes no
\* call; the step in which a call is made sets isCreating; the step in
\* which the call completes, with an envelope or an exception, resets it
IsCreatingSteps ==
  /\ (FormStep /\ (Blank(form.gameId) \/ Blank(form.userPick))) =>
       /\ form'.isCreating = form.isCreating
       /\ form'.calls = form.calls
  /\ (FormStep /\ form'.calls # form.calls) =>
       /\ ~form.isCreating /\ form'.isCreating
       /\ form'.pending = <<form'.calls[Len(form'.calls)]>>
  /\ SettleStep =>
       /\ form.isCreating /\ ~form'.isCreating
       /\ form'.settled.outcome \in {"returned", "threw"}

\* C29: in the picks form isCreating is true exactly while a create-pick
\* call is outstanding: it is set in the step that issues the call, it is
\* reset in the step in which the call completes (success envelope,
\* failure envelope or thrown exception), and it does return to false;
\* a submit with an empty or white-space-only gameId or pick sets no
\* isCreating and issues no call.
C29_IsCreatingExactlyWhileOutstanding ==
  /\ []IsCreatingWhileOutstanding
  /\ [][IsCreatingSteps]_vars
  /\ (form.isCreating ~> ~form.isCreating)

\* A submit with a pick of white space has been turned away, after a call
\* that failed had given isCreating back
C29_Witness ==
  /\ form.pc = "mounted"
  /\ form.toast = "Missing fields"
  /\ ~Blank(form.gameId) /\ form.userPick = <<" ">>
  /\ ~form.isCreating /\ form.pending = <<>>
  /\ Len(form.calls) = 1
  /\ form.settled.outcome = "threw"

\* C30: the local picks list changes only when createUserPickAction
\* returns success: then exactly the created pick is put in front of the
\* list and the gameId and pick inputs are cleared; on a failure
\* envelope or a thrown exception the list and both inputs are unchanged.
C30_PicksChangeOnlyOnSuccess ==
  [][/\ (FormStep /\ form'.picks # form.picks) => SettleStep
     /\ SettleStep =>
          IF /\ form'.settled.outcome = "returned"
             /\ form'.settled.result.isSuccess
            THEN LET created == form'.settled.result.data
                 IN /\ form'.picks = <<created>> \o form.picks
                    /\ form'.gameId = <<>> /\ form'.userPick = <<>>
                    /\ created \in Rows(userPicksTable')
                    /\ created \notin Rows(userPicksTable)
                    /\ created.userId = form.userId
                    /\ created.gameId = form.gameId
                    /\ created.pick = form.userPick
                    /\ created.result = Null
            ELSE /\ form'.picks = form.picks
                 /\ form'.gameId = form.gameId
                 /\ form'.userPick = form.userPick]_vars

\* The second pick made through the form stands before the first, and the
\* inputs are empty
C30_Witness ==
  /\ form.pc = "mounted"
  /\ Len(form.picks) = 2 /\ Len(form.calls) = 2
  /\ form.picks[1] = form.settled.result.data
  /\ form.picks[1].id # form.picks[2].id
  /\ form.gameId = <<>> /\ form.userPick = <<>>
  /\ form.toast = "Pick created"

====
